---------------------------- MODULE Spec2Model ----------------------------
(***************************************************************************)
(* MysoreScript: the tree-walking interpreter, its context (symbol tables, *)
(* global value cells, return signal) and the tiered hand-off to compiled  *)
(* code, as a state machine.  One step of the machine is one step of the   *)
(* interpreter's recursion: the call of a handler, or its continuation     *)
(* after a recursive call returns.  The pending continuations are kept on  *)
(* the explicit stack `kont` (the native call stack of the interpreter).   *)
(***************************************************************************)
EXTENDS Integers, Sequences, FiniteSets, TLC

VARIABLES
    blocks,          \* driver: the top-level statement blocks still to run
    ctl,             \* what the interpreter is about to do / has just produced
    kont,            \* pending continuations, innermost last
    symbols,         \* Context::symbols, the stack of local symbol tables
    stack,           \* storage the local tables point into (args, self, cmd)
    globals,         \* Context::globals, the list of global Value cells
    globalSymbols,   \* Context::globalSymbols, name -> address of a cell
    roots,           \* uncollectable slots handed out by the collector
    retVal,          \* Context::retVal
    isReturning,     \* Context::isReturning
    currentContext,  \* the file-level currentContext pointer
    heap,            \* collector-managed objects, by address
    classes,         \* every Class structure ever built
    classTable,      \* runtime class table, name -> Class
    selectors,       \* runtime selector table (interned names)
    executionCount,  \* ClosureDecl::executionCount, per declaration
    compiledClosure, \* ClosureDecl::compiledClosure, per declaration
    checked,         \* ClosureDecl::checked
    boundVars,       \* ClosureDecl::boundVars
    decls,           \* ClosureDecl::decls
    cache,           \* Expression::cache, per expression node
    compiles,        \* number of code generator invocations so far
    log,             \* history: per declaration, one record per entry
    hist,            \* history: per running activation, the returns it executed
    lastInv,         \* history: the invocation that returned last
    late,            \* history: a statement ran in a block after a return in it
    cell,            \* a free-standing Value cell
    cellRoots,       \* the uncollectable slots of the free-standing cell
    cellOps,         \* the set() calls made on the free-standing cell so far
    cellLife,        \* history: slots allocated and freed for the cell, and whether it still exists
    tagN,            \* an integer to be encoded as a small integer
    tagWord          \* the word createSmallInteger made of it, once made

vars == << blocks, ctl, kont, symbols, stack, globals, globalSymbols, roots,
           retVal, isReturning, currentContext, heap, classes, classTable,
           selectors, executionCount, compiledClosure, checked, boundVars,
           decls, cache, compiles, log, hist, lastInv, late,
           cell, cellRoots, cellOps, cellLife, tagN, tagWord >>

machineVars == << blocks, ctl, kont, symbols, stack, globals, globalSymbols,
                  roots, retVal, isReturning, currentContext, heap, classes,
                  classTable, selectors, executionCount, compiledClosure,
                  checked, boundVars, decls, cache, compiles, log, hist,
                  lastInv, late >>

cellVars == << cell, cellRoots, cellOps, cellLife >>

tagVars == << tagN, tagWord >>

-----------------------------------------------------------------------------
(* Sequences *)

Last(s) == s[Len(s)]

Front(s) == SubSeq(s, 1, Len(s) - 1)

-----------------------------------------------------------------------------
(* Tagged values.  An Obj is a machine word: 0 is null, a word with the    *)
(* low bit set is a small integer, a non-zero multiple of 8 is a pointer.  *)

compileThreshold == 10

\* The size of the argument buffer of Call::evaluateExpr and the largest
\* arity that has a trampoline.
MaxArgs == 10

\* Calls made beyond the compile threshold by the driver programs.
Extra == 2

\* Number of set() calls explored on the free-standing Value cell.
MaxCellOps == 3

\* Width of the machine word in bits (scaled down from 64).
WordBits == 16

\* A bit pattern of WordBits bits read as a signed integer (intptr_t).
Signed(w) == IF w >= 2^(WordBits - 1) THEN w - 2^WordBits ELSE w

\* The largest integer a small integer holds (WordBits - 3 bits, signed).
MaxSmallInteger == 2^(WordBits - 4) - 1

\* (i << 3) | 1 without the conversion of the bit pattern to intptr_t.
createSmallIntegerUnsigned(i) == ((i * 8) + 1) % (2^WordBits)

\* (Obj)((i << 3) | 1)
createSmallInteger(i) == Signed(((i * 8) + 1) % (2^WordBits))

isInteger(o) == (o % 2) = 1

needsGC(o) == (o # 0) /\ ((o % 8) = 0)

\* ((intptr_t)o) >> 3
Untag(o) == o \div 8

\* ((intptr_t)o) & ~7
ClearTag(o) == o - (o % 8)

\* A test of the whole word, tag bits included.
TruthyNonNull(o) == o # 0

\* (reinterpret_cast<intptr_t>(o)) & ~7: the test of if and while
Truthy(o) == ClearTag(o) # 0


-----------------------------------------------------------------------------
(* The AST, as the parser delivers it.  Expression nodes that can be       *)
(* constant carry an id, the identity of their cache member.  A closure    *)
(* declaration node is named by its index in Decls.                        *)

Number(i, v) == [k |-> "Number", id |-> i, value |-> v]

StringLiteral(i, s, n) == [k |-> "StringLiteral", id |-> i, value |-> s, size |-> n]

BinOp(i, o, l, r) == [k |-> "BinOp", id |-> i, op |-> o, lhs |-> l, rhs |-> r]

VarRef(x) == [k |-> "VarRef", name |-> x]

Call(f, as) == [k |-> "Call", callee |-> f, method |-> "", arguments |-> as]

Send(o, m, as) == [k |-> "Call", callee |-> o, method |-> m, arguments |-> as]

NewExpr(c) == [k |-> "NewExpr", className |-> c]

ClosureDecl(d) == [k |-> "ClosureDecl", d |-> d]

NoInit == [k |-> "None"]

Decl(x, e) == [k |-> "Decl", name |-> x, init |-> e]

Assignment(x, e) == [k |-> "Assignment", target |-> VarRef(x), expr |-> e]

IfStatement(c, b) == [k |-> "IfStatement", condition |-> c, body |-> b]

WhileLoop(c, b) == [k |-> "WhileLoop", condition |-> c, body |-> b]

Return(e) == [k |-> "Return", expr |-> e]

ClassDecl(n, s, iv, ms) == [k |-> "ClassDecl", name |-> n, superclassName |-> s, ivars |-> iv, methods |-> ms]

ExpressionKinds == {"Number", "StringLiteral", "BinOp", "VarRef", "Call", "NewExpr", "ClosureDecl"}

Comparisons == {"eq", "ne", "lt", "gt", "le", "ge"}

\* The closure and method declarations of the driver programs.
Decls ==
    << \* 1: fun g(a) { return a; }
       [name |-> "g", parameters |-> <<"a">>,
        body |-> << Return(VarRef("a")) >>],
       \* 2: fun m(x) { v = x; return v; }      (method of class A)
       [name |-> "m", parameters |-> <<"x">>,
        body |-> << Assignment("v", VarRef("x")), Return(VarRef("v")) >>],
       \* 3: fun f(a) { if (a) { return 1; } return 2; }
       [name |-> "f", parameters |-> <<"a">>,
        body |-> << IfStatement(VarRef("a"), << Return(Number(30, 1)) >>),
                    Return(Number(31, 2)) >>],
       \* 4: fun p() { return 7; }
       [name |-> "p", parameters |-> <<>>,
        body |-> << Return(Number(40, 7)) >>],
       \* 5: fun q() { return 5; }               (method of class B)
       [name |-> "q", parameters |-> <<>>,
        body |-> << Return(Number(50, 5)) >>],
       \* 6: fun t() { if (k) { k = 0; return 1; } }
       [name |-> "t", parameters |-> <<>>,
        body |-> << IfStatement(VarRef("k"),
                       << Assignment("k", Number(60, 0)),
                          Return(Number(61, 1)) >>) >>],
       \* 7: fun h() { while (t()) { return 0; } return 2; }
       [name |-> "h", parameters |-> <<>>,
        body |-> << WhileLoop(Call(VarRef("t"), <<>>),
                       << Return(Number(70, 0)) >>),
                    Return(Number(71, 2)) >>],
       \* 8: fun r(a) { if (a) { return r(a - 1); } return 0; }
       [name |-> "r", parameters |-> <<"a">>,
        body |-> << IfStatement(VarRef("a"),
                       << Return(Call(VarRef("r"),
                             << BinOp(80, "sub", VarRef("a"), Number(81, 1)) >>)) >>),
                    Return(Number(82, 0)) >>],
       \* 9: fun add(x) { return x; }            (method of class C)
       [name |-> "add", parameters |-> <<"x">>,
        body |-> << Return(VarRef("x")) >>],
       \* 10: fun inc() { c = c + 1; return c; }
       [name |-> "inc", parameters |-> <<>>,
        body |-> << Assignment("c", BinOp(121, "add", VarRef("c"), Number(122, 1))),
                    Return(VarRef("c")) >>],
       \* 11: fun u() { var x = y; return x; }
       [name |-> "u", parameters |-> <<>>,
        body |-> << Decl("x", VarRef("y")), Return(VarRef("x")) >>],
       \* 12: fun w(a) { fun z() { return a; } return z(); }
       [name |-> "w", parameters |-> <<"a">>,
        body |-> << ClosureDecl(13), Return(Call(VarRef("z"), <<>>)) >>],
       \* 13: fun z() { return a; }              (nested in 12)
       [name |-> "z", parameters |-> <<>>,
        body |-> << Return(VarRef("a")) >>],
       \* 14: fun f2(y) { return u(); }
       [name |-> "f2", parameters |-> <<"y">>,
        body |-> << Return(Call(VarRef("u"), <<>>)) >>],
       \* 15: fun v() { var g = v; return g; }
       [name |-> "v", parameters |-> <<>>,
        body |-> << Decl("g", VarRef("v")), Return(VarRef("g")) >>],
       \* 16: fun q() { return 6; }               (method of class F, overrides 5)
       [name |-> "q", parameters |-> <<>>,
        body |-> << Return(Number(185, 6)) >>],
       \* 17: fun big(p1, ..., p11) { return p1; }
       [name |-> "big", parameters |-> <<"p1", "p2", "p3", "p4", "p5", "p6", "p7", "p8", "p9", "p10", "p11">>,
        body |-> << Return(VarRef("p1")) >>],
       \* 18: fun e1() { var tr = tr * 10 + 1; return 1; }
       [name |-> "e1", parameters |-> <<>>,
        body |-> << Decl("tr", BinOp(207, "add", BinOp(208, "mul", VarRef("tr"), Number(209, 10)), Number(210, 1))), Return(Number(211, 1)) >>],
       \* 19: fun e2() { var tr = tr * 10 + 2; return 2; }
       [name |-> "e2", parameters |-> <<>>,
        body |-> << Decl("tr", BinOp(212, "add", BinOp(213, "mul", VarRef("tr"), Number(214, 10)), Number(215, 2))), Return(Number(216, 2)) >>],
       \* 20: fun mk() { var tr = tr * 10 + 3; return sub2; }
       [name |-> "mk", parameters |-> <<>>,
        body |-> << Decl("tr", BinOp(217, "add", BinOp(218, "mul", VarRef("tr"), Number(219, 10)), Number(220, 3))), Return(VarRef("sub2")) >>],
       \* 21: fun sub2(a, b) { var tr = tr * 10 + 4; return a - b; }
       [name |-> "sub2", parameters |-> <<"a", "b">>,
        body |-> << Decl("tr", BinOp(221, "add", BinOp(222, "mul", VarRef("tr"), Number(223, 10)), Number(224, 4))), Return(BinOp(225, "sub", VarRef("a"), VarRef("b"))) >>],
       \* 22: fun two() { return ca * 10 + cb; }
       [name |-> "two", parameters |-> <<>>,
        body |-> << Return(BinOp(233, "add", BinOp(234, "mul", VarRef("ca"), Number(235, 10)), VarRef("cb"))) >>],
       \* 23: fun get() { return v; }             (method of class K)
       [name |-> "get", parameters |-> <<>>,
        body |-> << Return(VarRef("v")) >>],
       \* 24: fun me() { return self; }           (method of class K)
       [name |-> "me", parameters |-> <<>>,
        body |-> << Return(VarRef("self")) >>],
       \* 25: fun sel() { return cmd; }           (method of class K)
       [name |-> "sel", parameters |-> <<>>,
        body |-> << Return(VarRef("cmd")) >>],
       \* 26: fun h() { return un; }
       [name |-> "h", parameters |-> <<>>,
        body |-> << Return(VarRef("un")) >>]
    >>

DeclIds == 1..Len(Decls)

\* while (x < n) { body; x = x + 1; }
CountedLoop(i, x, n, body) == WhileLoop(BinOp(i, "lt", VarRef(x), Number(i + 1, n)), body \o << Assignment(x, BinOp(i + 2, "add", VarRef(x), Number(i + 3, 1))) >>)

\* Input that is not a parsed statement block: a file given with -f that
\* does not parse, a REPL line that does not parse, an empty REPL line.
FileSyntaxError == << [k |-> "FileSyntaxError"] >>

LineSyntaxError == << [k |-> "LineSyntaxError"] >>

EmptyLine == << [k |-> "EmptyLine"] >>

\* The driver programs: each a sequence of top-level statement blocks (the
\* file given with -f, or the lines typed at the REPL).
Programs ==
    << \* 1: one closure object called compileThreshold + Extra times
       << << ClosureDecl(1) >>,
          << Decl("n", Number(1, 0)),
             CountedLoop(2, "n", compileThreshold + Extra,
                         << Call(VarRef("g"), << VarRef("n") >>) >>) >> >>,
       \* 2: one method called compileThreshold + Extra times
       << << ClassDecl("", "A", <<"v">>, <<2>>),
             Decl("o", NewExpr("A")),
             Decl("n", Number(10, 0)),
             CountedLoop(11, "n", compileThreshold + Extra,
                         << Send(VarRef("o"), "m", << VarRef("n") >>) >>) >> >>,
       \* 3: returns through if-bodies, and a recursive closure
       << << ClosureDecl(3) >>,
          << Decl("r0", Call(VarRef("f"), << Number(20, 0) >>)),
             Decl("r1", Call(VarRef("f"), << Number(21, 1) >>)) >>,
          << ClosureDecl(8),
             Decl("r2", Call(VarRef("r"), << Number(22, 2) >>)),
             Decl("s", NoInit),
             Assignment("s", StringLiteral(23, "hi", 2)),
             Assignment("s", Number(24, 3)) >> >>,
       \* 4: two closure objects of one declaration; the first is still
       \*    called through its trampoline after the declaration is compiled
       << << Decl("a", Number(41, 0)),
             Decl("k", Number(42, 0)),
             CountedLoop(43, "k", 2,
                << ClosureDecl(4),
                   IfStatement(BinOp(47, "eq", VarRef("k"), Number(48, 0)),
                               << Assignment("a", VarRef("p")) >>) >>),
             Decl("n", Number(49, 0)),
             CountedLoop(90, "n", compileThreshold,
                         << Call(VarRef("p"), <<>>) >>),
             Decl("j", Number(94, 0)),
             CountedLoop(95, "j", Extra,
                         << Call(VarRef("a"), <<>>) >>),
             ClosureDecl(4) >> >>,
       \* 5: two Class structures sharing one method declaration
       << << Decl("o1", NoInit),
             Decl("k", Number(51, 0)),
             CountedLoop(52, "k", 2,
                << ClassDecl("", "B", <<>>, <<5>>),
                   IfStatement(BinOp(56, "eq", VarRef("k"), Number(57, 0)),
                               << Assignment("o1", NewExpr("B")) >>) >>),
             Decl("o2", NewExpr("B")),
             Decl("n", Number(58, 0)),
             CountedLoop(100, "n", compileThreshold,
                         << Send(VarRef("o2"), "q", <<>>) >>),
             Decl("j", Number(104, 0)),
             CountedLoop(105, "j", Extra,
                         << Send(VarRef("o1"), "q", <<>>) >>) >> >>,
       \* 6: a return inside a while loop whose condition calls a closure
       << << Decl("k", Number(62, 1)) >>,
          << ClosureDecl(6) >>,
          << ClosureDecl(7) >>,
          << Decl("r", Call(VarRef("h"), <<>>)) >>,
          << Decl("r2", Call(VarRef("t"), <<>>)) >> >>,
       \* 7: a binary operator applied to an object, no call made before
       << << ClassDecl("", "C", <<>>, <<9>>),
             Decl("o", NewExpr("C")),
             Decl("r", BinOp(123, "add", VarRef("o"), Number(124, 3))) >> >>,
       \* 8: binary operators on integers and objects, conditions of every
       \*    kind of value, constant expressions evaluated repeatedly
       << << ClosureDecl(4),
             Call(VarRef("p"), <<>>),
             ClassDecl("", "C", <<>>, <<9>>),
             Decl("o", NewExpr("C")),
             Decl("r", BinOp(125, "add", VarRef("o"), Number(126, 3))),
             Decl("e", BinOp(127, "eq", VarRef("o"), VarRef("o"))),
             Decl("l", BinOp(128, "lt", Number(129, 1), VarRef("o"))),
             Decl("d", BinOp(130, "div", BinOp(131, "sub", Number(132, 0), Number(133, 7)), Number(134, 2))) >>,
          << Decl("z", NoInit),
             Decl("t", Number(135, 0)),
             IfStatement(VarRef("z"), << Assignment("t", Number(136, 1)) >>),
             IfStatement(Number(137, 0), << Assignment("t", Number(138, 2)) >>),
             IfStatement(BinOp(139, "sub", Number(140, 0), Number(141, 1)), << Assignment("z", Number(142, 4)) >>),
             IfStatement(VarRef("o"), << Assignment("t", BinOp(143, "add", VarRef("t"), Number(144, 8))) >>),
             Decl("s", StringLiteral(145, "s", 1)),
             WhileLoop(VarRef("s"), << Assignment("s", Number(146, 0)) >>),
             WhileLoop(VarRef("s"), << Assignment("t", Number(147, 0)) >>) >>,
          << Decl("n", Number(148, 0)),
             Decl("s1", NoInit),
             Decl("s2", NoInit),
             CountedLoop(149, "n", 2,
                << Assignment("s1", VarRef("s2")),
                   Assignment("s2", StringLiteral(153, "hi", 2)),
                   Assignment("i", BinOp(154, "add", Number(155, 2), BinOp(156, "mul", Number(157, 3), Number(158, 4)))) >>) >> >>,
       \* 9: two closure objects of one declaration that captures c and
       \*    assigns to it, and an assignment to c in the enclosing scope
       << << Decl("c", Number(159, 5)),
             Decl("a", NoInit),
             Decl("j", Number(160, 0)),
             CountedLoop(161, "j", 2,
                << ClosureDecl(10),
                   IfStatement(BinOp(165, "eq", VarRef("j"), Number(166, 0)),
                               << Assignment("a", VarRef("inc")) >>) >>),
             Assignment("c", Number(167, 7)) >>,
          << Decl("r1", Call(VarRef("inc"), <<>>)),
             Decl("r2", Call(VarRef("inc"), <<>>)),
             Decl("r3", Call(VarRef("a"), <<>>)) >> >>,
       \* 10: names read in an initialiser, nested closures, closures that
       \*     refer to themselves declared twice
       << << Decl("y", Number(168, 5)),
             ClosureDecl(11),
             ClosureDecl(14),
             Decl("r", Call(VarRef("f2"), << Number(169, 1) >>)) >>,
          << ClosureDecl(12),
             Decl("r3", Call(VarRef("w"), << Number(170, 4) >>)) >>,
          << Decl("j", Number(171, 0)),
             CountedLoop(172, "j", 2, << ClosureDecl(8) >>),
             Decl("r4", Call(VarRef("r"), << Number(176, 1) >>)) >>,
          << ClosureDecl(15),
             Decl("a2", VarRef("v")),
             ClosureDecl(15),
             Decl("r5", Call(VarRef("a2"), <<>>)) >> >>,
       \* 11: equality of null, small integers and objects
       << << ClassDecl("", "C", <<>>, <<9>>),
             Decl("nl", NoInit),
             Decl("o", NewExpr("C")),
             Decl("q1", BinOp(177, "eq", Number(178, 3), Number(179, 3))),
             Decl("q2", BinOp(180, "ne", VarRef("o"), VarRef("nl"))),
             Decl("q3", BinOp(181, "eq", VarRef("nl"), Number(182, 0))),
             Decl("q4", BinOp(183, "ne", VarRef("nl"), Number(184, 0))) >> >>,
       \* 12: class E { q } and class F : E { q }, q sent to an instance of each
       << << ClassDecl("", "E", <<>>, <<5>>),
             ClassDecl("F", "E", <<>>, <<16>>),
             Decl("oe", NewExpr("E")),
             Decl("of", NewExpr("F")) >>,
          << Decl("rf", Send(VarRef("of"), "q", <<>>)),
             Decl("re", Send(VarRef("oe"), "q", <<>>)) >> >>,
       \* 13: a closure with MaxArgs + 1 parameters, declared and called
       << << ClosureDecl(17),
             Decl("b", Call(VarRef("big"), << Number(186, 1) >>)) >> >>,
       \* 14: a class with a method of MaxArgs + 1 parameters
       << << ClassDecl("", "W", <<>>, <<5, 17>>),
             Decl("ow", NewExpr("W")) >> >>,
       \* 15: a call with MaxArgs + 1 arguments
       << << ClosureDecl(1),
             Decl("b", Call(VarRef("g"), [i \in 1..(MaxArgs + 1) |-> Number(186 + i, i)])) >> >>,
       \* 16: a reference to a name bound nowhere, between two declarations
       << << Decl("a1", Number(200, 1)),
             Decl("u1", VarRef("nosuch")),
             Decl("a2", Number(201, 2)) >>,
          << Decl("a3", Number(202, 3)) >> >>,
       \* 17: REPL lines: one that does not parse between two that do, then an
       \*     empty line, then a line that is never read
       << << Decl("a1", Number(203, 1)) >>,
          LineSyntaxError,
          << Decl("a2", Number(204, 2)) >>,
          EmptyLine,
          << Decl("a3", Number(205, 3)) >> >>,
       \* 18: a file that does not parse, with REPL lines waiting
       << FileSyntaxError,
          << Decl("a1", Number(206, 1)) >> >>,
       \* 19: operands, callee and arguments that each append a digit to tr
       << << Decl("tr", Number(226, 0)),
             ClosureDecl(18),
             ClosureDecl(19),
             ClosureDecl(21),
             ClosureDecl(20),
             Decl("d1", BinOp(227, "sub", Call(VarRef("e1"), <<>>), Call(VarRef("e2"), <<>>))),
             Decl("t1", VarRef("tr")),
             Assignment("tr", Number(228, 0)),
             Decl("d2", Call(Call(VarRef("mk"), <<>>), << Call(VarRef("e1"), <<>>), Call(VarRef("e2"), <<>>) >>)),
             Decl("t2", VarRef("tr")) >> >>,
       \* 20: a return statement outside any closure, then another line
       << << Decl("a1", Number(229, 1)),
             Return(Number(230, 7)),
             Decl("a2", Number(231, 2)) >>,
          << Decl("a3", Number(232, 3)) >> >>,
       \* 21: a closure with two bound variables, called after both globals
       \*     have changed
       << << Decl("ca", Number(236, 3)),
             Decl("cb", Number(237, 4)),
             ClosureDecl(22),
             Assignment("ca", Number(238, 0)),
             Assignment("cb", Number(239, 0)),
             Decl("r", Call(VarRef("two"), <<>>)),
             Decl("r2", Call(VarRef("two"), <<>>)) >> >>,
       \* 22: arithmetic inside and across the ends of the small-integer range
       << << Decl("x", BinOp(240, "add", Number(241, 2), BinOp(242, "mul", Number(243, 3), Number(244, 4)))),
             Decl("hi", BinOp(245, "add", Number(246, MaxSmallInteger), Number(247, 1))),
             Decl("lo", BinOp(248, "sub", BinOp(249, "sub", Number(250, 0), Number(251, MaxSmallInteger)), Number(252, 2))),
             Decl("sq", BinOp(253, "mul", Number(254, MaxSmallInteger), Number(255, MaxSmallInteger))),
             Decl("ng", BinOp(256, "mul", VarRef("hi"), Number(257, 3))) >> >>,
       \* 23: two instances of a class with two instance variables, and a
       \*     global named like one of them
       << << ClassDecl("", "K", <<"w", "v">>, <<2, 23, 24, 25>>),
             Decl("v", Number(258, 5)),
             Decl("o1", NewExpr("K")),
             Decl("o2", NewExpr("K")),
             Decl("s1", Send(VarRef("o1"), "m", << Number(259, 7) >>)),
             Decl("r1", Send(VarRef("o1"), "get", <<>>)),
             Decl("r2", Send(VarRef("o2"), "get", <<>>)),
             Decl("sf", Send(VarRef("o2"), "me", <<>>)),
             Decl("cm", Send(VarRef("o1"), "sel", <<>>)) >> >>,
       \* 24: a method of the superclass that stores to an instance variable
       \*     of the superclass, called on an instance of the subclass
       << << ClassDecl("", "A", <<"v">>, <<2>>),
             ClassDecl("B", "A", <<"u">>, <<>>),
             Decl("ob", NewExpr("B")),
             Decl("rb", Send(VarRef("ob"), "m", << Number(260, 7) >>)) >> >>,
       \* 25: a closure that reads a name bound nowhere when it is created
       << << Decl("a1", Number(261, 1)),
             ClosureDecl(26),
             Decl("a2", Number(262, 2)) >> >>,
       \* 26: a class declared again after a subclass of it exists, and a
       \*     subclass of a class that does not exist
       << << ClassDecl("", "E", <<>>, <<5>>),
             ClassDecl("F", "E", <<>>, <<>>),
             ClassDecl("", "E", <<"v">>, <<16, 2>>),
             ClassDecl("G", "Z", <<>>, <<5>>),
             Decl("fo", NewExpr("F")),
             Decl("fr", Send(VarRef("fo"), "q", <<>>)),
             Decl("eo", NewExpr("E")),
             Decl("er", Send(VarRef("eo"), "q", <<>>)) >> >>
    >>

NodeIds == 1..300

-----------------------------------------------------------------------------
(* Interpreter::Value: an Obj together with the uncollectable slot that    *)
(* keeps it visible to the collector.  holder = 0 is the null pointer.     *)

EmptyValue == [object |-> 0, holder |-> 0]

\* GC_malloc_uncollectable: an address not in use.
FreshRoot(rts) == CHOOSE i \in 1..(Cardinality(DOMAIN rts) + 1) : i \notin DOMAIN rts

\* GC_free
FreeRoot(rts, h) == [i \in (DOMAIN rts) \ {h} |-> rts[i]]

\* Value::set, without its third branch (heap object replaced by heap object).
ValueSetNoUpdate(v, rts, o) ==
    IF needsGC(v.object) /\ ~needsGC(o)
    THEN [cell |-> [object |-> o, holder |-> 0], roots |-> FreeRoot(rts, v.holder)]
    ELSE IF ~needsGC(v.object) /\ needsGC(o)
    THEN LET h == FreshRoot(rts)
         IN  [cell |-> [object |-> o, holder |-> h], roots |-> (h :> o) @@ rts]
    ELSE [cell |-> [v EXCEPT !.object = o], roots |-> rts]

\* Value::set, without its first branch (the slot is kept when the value
\* stops needing it).
ValueSetNoFree(v, rts, o) ==
    IF ~needsGC(v.object) /\ needsGC(o)
    THEN LET h == FreshRoot(rts)
         IN  [cell |-> [object |-> o, holder |-> h], roots |-> (h :> o) @@ rts]
    ELSE IF needsGC(v.object) /\ needsGC(o)
    THEN [cell |-> [v EXCEPT !.object = o], roots |-> [rts EXCEPT ![v.holder] = o]]
    ELSE [cell |-> [v EXCEPT !.object = o], roots |-> rts]

\* Value::set(Obj o): the new cell and the new set of uncollectable slots.
ValueSet(v, rts, o) ==
    IF needsGC(v.object) /\ ~needsGC(o)
    THEN [cell |-> [object |-> o, holder |-> 0], roots |-> FreeRoot(rts, v.holder)]
    ELSE IF ~needsGC(v.object) /\ needsGC(o)
    THEN LET h == FreshRoot(rts)
         IN  [cell |-> [object |-> o, holder |-> h], roots |-> (h :> o) @@ rts]
    ELSE IF needsGC(v.object) /\ needsGC(o)
    THEN [cell |-> [v EXCEPT !.object = o], roots |-> [rts EXCEPT ![v.holder] = o]]
    ELSE [cell |-> [v EXCEPT !.object = o], roots |-> rts]

\* Value::~Value: the uncollectable slots after the cell is destroyed.
ValueDestroy(v, rts) == IF needsGC(v.object) THEN FreeRoot(rts, v.holder) ELSE rts

\* Value(Obj o): a cell constructed holding o.
ValueNew(rts, o) == ValueSet(EmptyValue, rts, o)

-----------------------------------------------------------------------------
(* Storage.  An Obj* is a location: a global cell's object field, a slot   *)
(* of an argument array, the self or cmdObj local of interpretMethod, or a *)
(* slot inside a heap object (bound variables, instance variables).        *)

NullLoc == << "null" >>

GlobalLoc(i) == << "global", i >>

ArgLoc(f, i) == << "arg", f, i >>

SelfLoc(f) == << "self", f >>

CmdLoc(f) == << "cmd", f >>

SlotLoc(a, i) == << "slot", a, i >>

Load(m, loc) ==
    CASE loc[1] = "global" -> m.globals[loc[2]].object
      [] loc[1] = "arg"    -> m.stack[loc[2]].args[loc[3]]
      [] loc[1] = "self"   -> m.stack[loc[2]].self
      [] loc[1] = "cmd"    -> m.stack[loc[2]].cmd
      [] loc[1] = "slot"   -> m.heap[loc[2]].slots[loc[3]]

Store(m, loc, v) ==
    CASE loc[1] = "global" -> [m EXCEPT !.globals[loc[2]].object = v]
      [] loc[1] = "arg"    -> [m EXCEPT !.stack[loc[2]].args[loc[3]] = v]
      [] loc[1] = "self"   -> [m EXCEPT !.stack[loc[2]].self = v]
      [] loc[1] = "cmd"    -> [m EXCEPT !.stack[loc[2]].cmd = v]
      [] loc[1] = "slot"   -> [m EXCEPT !.heap[loc[2]].slots[loc[3]] = v]

\* A lookup that walks the whole symbol table stack, top first, before the
\* globals.
lookupSymbolAnyFrame(syms, gsyms, name) ==
    LET hit == {i \in 1..Len(syms) : name \in DOMAIN syms[i]}
    IN  IF hit # {}
        THEN syms[CHOOSE i \in hit : \A j \in hit : j <= i][name]
        ELSE IF name \in DOMAIN gsyms
        THEN gsyms[name]
        ELSE NullLoc

\* Context::lookupSymbol
lookupSymbol(syms, gsyms, name) ==
    IF syms # << >> /\ name \in DOMAIN Last(syms)
    THEN Last(syms)[name]
    ELSE IF name \in DOMAIN gsyms
    THEN gsyms[name]
    ELSE NullLoc

\* A store that allocates a new global cell whether or not the name resolves.
setSymbolAlwaysNew(m, syms, name, val) ==
    LET nv == ValueNew(m.roots, val)
    IN  [m EXCEPT !.globals = Append(@, nv.cell),
                  !.roots = nv.roots,
                  !.globalSymbols = (name :> GlobalLoc(Len(m.globals) + 1)) @@ @]

\* Context::setSymbol(name, Obj val)
setSymbol(m, syms, name, val) ==
    LET addr == lookupSymbol(syms, m.globalSymbols, name)
    IN  IF addr = NullLoc
        THEN LET nv == ValueNew(m.roots, val)
             IN  [m EXCEPT !.globals = Append(@, nv.cell),
                           !.roots = nv.roots,
                           !.globalSymbols = (name :> GlobalLoc(Len(m.globals) + 1)) @@ @]
        ELSE Store(m, addr, val)

\* Context::setSymbol(name, Obj *val): bind in the top local table.
bindSymbol(syms, name, loc) == [syms EXCEPT ![Len(syms)] = (name :> loc) @@ @]

\* gcAlloc: the address of the next object.
NextAddr(h) == 8 * (Cardinality(DOMAIN h) + 1)

-----------------------------------------------------------------------------
(* Function pointers: a trampoline of some arity, or an entry point made   *)
(* by the code generator (n counts the code generator's invocations).      *)

NullEntry == [t |-> "null", n |-> 0, d |-> 0]

\* closureTrampolines[n]: a read past the end of the array yields whatever
\* lies behind it.
closureTrampolines(n) == [t |-> IF n <= MaxArgs THEN "closureTrampoline" ELSE "outOfBounds", n |-> n, d |-> 0]

\* methodTrampolines[n]
methodTrampolines(n) == [t |-> IF n <= MaxArgs THEN "methodTrampoline" ELSE "outOfBounds", n |-> n, d |-> 0]

\* compileClosure / compileMethod: a new entry point for declaration d.
CompiledEntry(d, n) == [t |-> "compiled", n |-> n, d |-> d]

\* What a call of a compiled entry point may return.
NativeResults == {0, createSmallInteger(1)}

-----------------------------------------------------------------------------
(* The runtime: classes, selectors, method lookup.                         *)

SmallIntClass == 1

StringClass == 2

ClosureClass == 3

BuiltinClass(n) == [superclass |-> 0, className |-> n, methodList |-> << >>, indexedIVarCount |-> 0, indexedIVarNames |-> << >>]

\* lookupSelector: the table after interning name.
Intern(sels, name) == IF \E i \in 1..Len(sels) : sels[i] = name THEN sels ELSE Append(sels, name)

\* lookupSelector: the selector of an interned name.
lookupSelector(sels, name) == CHOOSE i \in 1..Len(sels) : sels[i] = name

\* isInteger(self) ? &SmallIntClass : self->isa
ClassOf(h, o) == IF isInteger(o) THEN SmallIntClass ELSE h[o].isa

RECURSIVE methodForSelectorRootFirst(_, _, _)
\* A method lookup that prefers the method of the least derived class.
methodForSelectorRootFirst(cs, cls, sel) ==
    IF cls = 0
    THEN << 0, 0 >>
    ELSE LET up  == methodForSelectorRootFirst(cs, cs[cls].superclass, sel)
             ml  == cs[cls].methodList
             hit == {i \in 1..Len(ml) : ml[i].selector = sel}
         IN  IF up # << 0, 0 >>
             THEN up
             ELSE IF hit # {}
             THEN << cls, CHOOSE i \in hit : \A j \in hit : i <= j >>
             ELSE << 0, 0 >>

RECURSIVE methodForSelector(_, _, _)
\* methodForSelector: << class, index in its method list >>, or << 0, 0 >>.
methodForSelector(cs, cls, sel) ==
    IF cls = 0
    THEN << 0, 0 >>
    ELSE LET ml == cs[cls].methodList
             hit == {i \in 1..Len(ml) : ml[i].selector = sel}
         IN  IF hit # {}
             THEN << cls, CHOOSE i \in hit : \A j \in hit : i <= j >>
             ELSE methodForSelector(cs, cs[cls].superclass, sel)

\* lookupClass
lookupClass(ct, name) == IF name \in DOMAIN ct THEN ct[name] ELSE 0

-----------------------------------------------------------------------------
(* Capture analysis: ClosureDecl::check and the collectVarUses visitors.   *)
(* st holds the checked/boundVars/decls members of every declaration; acc  *)
(* holds the two sets being filled together with st.                       *)

Range(f) == {f[i] : i \in DOMAIN f}

RECURSIVE CollectVarUses(_, _)
RECURSIVE CollectAll(_, _, _)
RECURSIVE check(_, _)

\* Statements::collectVarUses, and the argument loop of Call::collectVarUses
CollectAll(ss, i, acc) ==
    IF i > Len(ss) THEN acc ELSE CollectAll(ss, i + 1, CollectVarUses(ss[i], acc))

\* collectVarUses of each node kind
CollectVarUses(s, acc) ==
    CASE s.k \in {"Number", "StringLiteral", "NewExpr", "ClassDecl"} -> acc
      [] s.k = "VarRef" -> [acc EXCEPT !.uses = @ \cup {s.name}]
      [] s.k = "BinOp" -> CollectVarUses(s.rhs, CollectVarUses(s.lhs, acc))
      [] s.k = "Call" -> CollectAll(s.arguments, 1, CollectVarUses(s.callee, acc))
      [] s.k = "Decl" -> [acc EXCEPT !.decls = @ \cup {s.name}]
      [] s.k = "Assignment" -> CollectVarUses(s.expr, CollectVarUses(s.target, acc))
      [] s.k = "Return" -> CollectVarUses(s.expr, acc)
      [] s.k \in {"IfStatement", "WhileLoop"} ->
            CollectAll(s.body, 1, CollectVarUses(s.condition, acc))
      [] s.k = "ClosureDecl" ->
            LET st2 == check(s.d, acc.st)
            IN  [decls |-> acc.decls \cup {Decls[s.d].name},
                 uses  |-> acc.uses \cup st2.boundVars[s.d],
                 st    |-> st2]

\* ClosureDecl::check
check(d, st) ==
    IF st.checked[d]
    THEN st
    ELSE LET r == CollectAll(Decls[d].body, 1,
                     [decls |-> st.decls[d], uses |-> st.boundVars[d], st |-> st])
         IN  [checked   |-> [r.st.checked EXCEPT ![d] = TRUE],
              boundVars |-> [r.st.boundVars EXCEPT ![d] =
                                (r.uses \ Range(Decls[d].parameters)) \ r.decls],
              decls     |-> [r.st.decls EXCEPT ![d] = r.decls]]

RECURSIVE BoundOrder(_)
\* The iteration order of a boundVars set: fixed for a given set.
BoundOrder(S) ==
    IF S = {} THEN << >>
    ELSE LET x == CHOOSE y \in S : TRUE IN << x >> \o BoundOrder(S \ {x})

\* A constness test that looks at literals only.
isConstantExpressionLeaf(e) == e.k \in {"Number", "StringLiteral"}

RECURSIVE isConstantExpression(_)
\* Expression::isConstantExpression and its overrides
isConstantExpression(e) ==
    CASE e.k \in {"Number", "StringLiteral"} -> TRUE
      [] e.k = "BinOp" -> isConstantExpression(e.lhs) /\ isConstantExpression(e.rhs)
      [] OTHER -> FALSE

\* The cache member of a node (nodes that are never constant never set it).
CacheId(e) == IF e.k \in {"Number", "StringLiteral", "BinOp"} THEN e.id ELSE 0

-----------------------------------------------------------------------------
(* Binary operators                                                        *)

\* The operands of a binary operation, right one first.
OperandOrderReversed(e) == << e.rhs, e.lhs >>

\* Obj LHS = lhs->evaluate(c); Obj RHS = rhs->evaluate(c);
OperandOrder(e) == << e.lhs, e.rhs >>

\* An operator test that takes no operator for a comparison.
isComparisonNever(op) == FALSE

\* isComparison of each BinOp subclass
isComparison(op) == op \in Comparisons

\* C++ integer division truncates towards zero.
TruncDiv(a, b) == IF (a >= 0) = (b > 0) THEN a \div b ELSE -((-a) \div b)

BoolInt(b) == IF b THEN 1 ELSE 0

\* Arithmetic that stops at the ends of the small-integer range.
evaluateWithIntegersSaturating(op, l, r) ==
    LET x == CASE op = "mul" -> l * r
               [] op = "div" -> TruncDiv(l, r)
               [] op = "add" -> l + r
               [] op = "sub" -> l - r
               [] OTHER -> BoolInt(CASE op = "eq" -> l = r [] op = "ne" -> l # r [] op = "lt" -> l < r
                                     [] op = "gt" -> l > r [] op = "le" -> l <= r [] op = "ge" -> l >= r)
    IN  IF x > MaxSmallInteger THEN MaxSmallInteger
        ELSE IF x < 0 - MaxSmallInteger - 1 THEN 0 - MaxSmallInteger - 1 ELSE x

\* evaluateWithIntegers of each BinOp subclass
evaluateWithIntegers(op, l, r) ==
    CASE op = "mul" -> l * r
      [] op = "div" -> TruncDiv(l, r)
      [] op = "add" -> l + r
      [] op = "sub" -> l - r
      [] op = "eq"  -> BoolInt(l = r)
      [] op = "ne"  -> BoolInt(l # r)
      [] op = "lt"  -> BoolInt(l < r)
      [] op = "gt"  -> BoolInt(l > r)
      [] op = "le"  -> BoolInt(l <= r)
      [] op = "ge"  -> BoolInt(l >= r)

\* methodName of each BinOp subclass
methodName(op) == op

-----------------------------------------------------------------------------
(* The tiered execution protocol                                           *)

\* executionCount++, stepping over the threshold when it starts odd.
IncrementCountByTwo(c) == c + 2

\* executionCount++
IncrementCount(c) == c + 1

\* executionCount >= compileThreshold
ThresholdPassed(c) == c >= compileThreshold

\* executionCount == compileThreshold
ThresholdReached(c) == c = compileThreshold

\* A closure object that always starts on its trampoline.
InitialInvokeNoCache(cc, params) == closureTrampolines(params)

\* compiledClosure ? compiledClosure : closureTrampolines[params]
InitialInvoke(cc, params) == IF cc # NullEntry THEN cc ELSE closureTrampolines(params)

\* The epilogue without popSymbols.
EpilogueNoPop(rv, syms) == [result |-> rv, retVal |-> 0, isReturning |-> FALSE, symbols |-> syms]

\* The epilogue of interpretClosure and interpretMethod: copy retVal, clear
\* the return signal, pop the local symbol table.
Epilogue(rv, syms) == [result |-> rv, retVal |-> 0, isReturning |-> FALSE, symbols |-> Front(syms)]

-----------------------------------------------------------------------------
(* The machine                                                             *)

memVars == << globals, globalSymbols, roots, stack, heap >>

sigVars == << retVal, isReturning >>

rtVars == << classes, classTable, selectors >>

declVars == << executionCount, compiledClosure, checked, boundVars, decls, compiles >>

histVars == << log, hist, lastInv, late >>

\* Everything but the interpreter's position.
restVars == << blocks, symbols, currentContext, cache, memVars, sigVars, rtVars, declVars, histVars, cellVars, tagVars >>

Mem == [globals |-> globals, globalSymbols |-> globalSymbols, roots |-> roots, stack |-> stack, heap |-> heap]

SetMem(m) ==
    /\ globals' = m.globals
    /\ globalSymbols' = m.globalSymbols
    /\ roots' = m.roots
    /\ stack' = m.stack
    /\ heap' = m.heap

Done == [m |-> "done"]

Exec(s) == [m |-> "exec", s |-> s]

Eval(e) == [m |-> "eval", e |-> e]

EvalExpr(e) == [m |-> "evalExpr", e |-> e]

Value(v) == [m |-> "value", v |-> v]

Fault(w) == [m |-> "fault", why |-> w]

\* main has returned with this exit code.
Exit(c) == [m |-> "exit", code |-> c]

EXIT_FAILURE == 1

\* A parse failure that ends the process whatever its source.
ParseFailureFatal(file) == Exit(EXIT_FAILURE)

\* main after a parse failure: `return EXIT_FAILURE` for the file,
\* `continue` for a REPL line.
ParseFailure(file) == IF file THEN Exit(EXIT_FAILURE) ELSE [m |-> "done"]

CallFn(conv, fn, self, sel, args) == [m |-> "call", conv |-> conv, fn |-> fn, self |-> self, sel |-> sel, args |-> args]

StatementsFrame(ss) == [k |-> "Statements", statements |-> ss, i |-> 1, ret |-> FALSE]

NoReturnYet == [executedReturn |-> FALSE, firstRet |-> 0]

NoInv == [d |-> 0, n |-> 0, codegen |-> FALSE, native |-> FALSE, nres |-> 0, walked |-> FALSE, executedReturn |-> FALSE, firstRet |-> 0, result |-> 0, symsIn |-> << >>, symsOut |-> << >>, isReturning |-> FALSE, retVal |-> 0]

Top == Last(kont)

At(m, k) == ctl.m = m /\ kont # << >> /\ Top.k = k

MachineInitWith(bs) ==
    /\ blocks = bs
    /\ ctl = Done
    /\ kont = << >>
    /\ symbols = << >>
    /\ stack = << >>
    /\ globals = << >>
    /\ globalSymbols = << >>
    /\ roots = << >>
    /\ retVal = 0
    /\ isReturning = FALSE
    /\ currentContext = "null"
    /\ heap = << >>
    /\ classes = << BuiltinClass("SmallInt"), BuiltinClass("String"), BuiltinClass("Closure") >>
    /\ classTable = << >>
    /\ selectors = << >>
    /\ executionCount = [d \in DeclIds |-> 0]
    /\ compiledClosure = [d \in DeclIds |-> NullEntry]
    /\ checked = [d \in DeclIds |-> FALSE]
    /\ boundVars = [d \in DeclIds |-> {}]
    /\ decls = [d \in DeclIds |-> {}]
    /\ cache = [i \in NodeIds |-> EmptyValue]
    /\ compiles = 0
    /\ log = [d \in DeclIds |-> << >>]
    /\ hist = << >>
    /\ lastInv = NoInv
    /\ late = FALSE

CellInit ==
    /\ cell = EmptyValue
    /\ cellRoots = << >>
    /\ cellOps = << >>
    /\ cellLife = [allocs |-> 0, frees |-> 0, alive |-> TRUE]

\* No integer encoded yet.
TagInit == tagN = 0 /\ tagWord = << >>

Init == (\E p \in 1..Len(Programs) : MachineInitWith(Programs[p])) /\ CellInit /\ TagInit

\* main: ast->interpret(C) on the next top-level block
DriverInterpret ==
    /\ ctl.m = "done" /\ kont = << >> /\ blocks # << >>
    /\ Head(blocks) \notin {FileSyntaxError, LineSyntaxError, EmptyLine}
    /\ kont' = << StatementsFrame(Head(blocks)) >>
    /\ blocks' = Tail(blocks)
    /\ hist' = << NoReturnYet >>
    /\ UNCHANGED << ctl, symbols, currentContext, cache, memVars, sigVars, rtVars, declVars, log, lastInv, late, cellVars, tagVars >>

\* main: p.parse fails on the file or on a REPL line
DriverParseFailure ==
    /\ ctl.m = "done" /\ kont = << >> /\ blocks # << >>
    /\ Head(blocks) \in {FileSyntaxError, LineSyntaxError}
    /\ ctl' = ParseFailure(Head(blocks) = FileSyntaxError)
    /\ blocks' = IF ctl'.m = "exit" THEN blocks ELSE Tail(blocks)
    /\ UNCHANGED << kont, symbols, currentContext, cache, memVars, sigVars, rtVars, declVars, histVars, cellVars, tagVars >>

\* main: the REPL reads an empty line
DriverEmptyLine ==
    /\ ctl.m = "done" /\ kont = << >> /\ blocks # << >>
    /\ Head(blocks) = EmptyLine
    /\ ctl' = Exit(0)
    /\ UNCHANGED << kont, restVars >>

\* Statements::interpret: one turn of its loop
StatementsInterpret ==
    /\ At("done", "Statements")
    /\ IF isReturning \/ Top.i > Len(Top.statements)
       THEN /\ kont' = Front(kont)
            /\ UNCHANGED << ctl, late >>
       ELSE /\ kont' = [kont EXCEPT ![Len(kont)].i = @ + 1]
            /\ ctl' = Exec(Top.statements[Top.i])
            /\ late' = (late \/ Top.ret)
    /\ UNCHANGED << blocks, symbols, currentContext, cache, memVars, sigVars, rtVars, declVars, log, hist, lastInv, cellVars, tagVars >>

\* Expression::interpret: evaluate(c), the value dropped
ExpressionInterpret ==
    /\ ctl.m = "exec" /\ ctl.s.k \in ExpressionKinds
    /\ kont' = Append(kont, [k |-> "Discard"])
    /\ ctl' = Eval(ctl.s)
    /\ UNCHANGED restVars

ExpressionInterpretReturn ==
    /\ At("value", "Discard")
    /\ kont' = Front(kont)
    /\ ctl' = Done
    /\ UNCHANGED restVars

\* Expression::evaluate, up to the call of evaluateExpr
ExpressionEvaluate ==
    /\ ctl.m = "eval"
    /\ LET e == ctl.e
           c == IF CacheId(e) = 0 THEN 0 ELSE cache[CacheId(e)].object
       IN  IF c # 0
           THEN ctl' = Value(c) /\ kont' = kont
           ELSE /\ kont' = Append(kont, [k |-> "evaluate", e |-> e, id |-> CacheId(e), const |-> isConstantExpression(e)])
                /\ ctl' = EvalExpr(e)
    /\ UNCHANGED restVars

\* Expression::evaluate, after evaluateExpr returned r
ExpressionEvaluateReturn ==
    /\ At("value", "evaluate")
    /\ IF Top.const
       THEN LET r == ValueSet(cache[Top.id], roots, ctl.v)
            IN  cache' = [cache EXCEPT ![Top.id] = r.cell] /\ roots' = r.roots
       ELSE UNCHANGED << cache, roots >>
    /\ kont' = Front(kont)
    /\ UNCHANGED << ctl, blocks, symbols, currentContext, globals, globalSymbols, stack, heap, sigVars, rtVars, declVars, histVars, cellVars, tagVars >>

\* Number::evaluateExpr
NumberEvaluateExpr ==
    /\ ctl.m = "evalExpr" /\ ctl.e.k = "Number"
    /\ ctl' = Value(createSmallInteger(ctl.e.value))
    /\ UNCHANGED << kont, restVars >>

StringObject(e) == [isa |-> StringClass, length |-> createSmallInteger(e.size), parameters |-> 0, AST |-> 0, invoke |-> NullEntry, slots |-> << >>, characters |-> e.value]

\* StringLiteral::evaluateExpr
StringLiteralEvaluateExpr ==
    /\ ctl.m = "evalExpr" /\ ctl.e.k = "StringLiteral"
    /\ heap' = (NextAddr(heap) :> StringObject(ctl.e)) @@ heap
    /\ ctl' = Value(NextAddr(heap))
    /\ UNCHANGED << kont, blocks, symbols, currentContext, cache, globals, globalSymbols, roots, stack, sigVars, rtVars, declVars, histVars, cellVars, tagVars >>

\* VarRef::evaluateExpr
VarRefEvaluateExpr ==
    /\ ctl.m = "evalExpr" /\ ctl.e.k = "VarRef"
    /\ LET addr == lookupSymbol(symbols, globalSymbols, ctl.e.name)
       IN  ctl' = IF addr = NullLoc THEN Fault("null dereference") ELSE Value(Load(Mem, addr))
    /\ UNCHANGED << kont, restVars >>

\* newObject
newObject(cls) == [isa |-> cls, length |-> 0, parameters |-> 0, AST |-> 0, invoke |-> NullEntry, slots |-> [i \in 1..classes[cls].indexedIVarCount |-> 0], characters |-> ""]

\* NewExpr::evaluateExpr
NewExprEvaluateExpr ==
    /\ ctl.m = "evalExpr" /\ ctl.e.k = "NewExpr"
    /\ LET cls == lookupClass(classTable, ctl.e.className)
       IN  IF cls = 0
           THEN ctl' = Fault("null dereference") /\ heap' = heap
           ELSE /\ heap' = (NextAddr(heap) :> newObject(cls)) @@ heap
                /\ ctl' = Value(NextAddr(heap))
    /\ UNCHANGED << kont, blocks, symbols, currentContext, cache, globals, globalSymbols, roots, stack, sigVars, rtVars, declVars, histVars, cellVars, tagVars >>

\* The Closure object built by ClosureDecl::evaluateExpr, bound variables unset
ClosureObject(d, n) == [isa |-> ClosureClass, length |-> 0, parameters |-> createSmallInteger(Len(Decls[d].parameters)), AST |-> d, invoke |-> InitialInvoke(compiledClosure[d], Len(Decls[d].parameters)), slots |-> [i \in 1..n |-> 0], characters |-> ""]

\* ClosureDecl::evaluateExpr
ClosureDeclEvaluateExpr ==
    /\ ctl.m = "evalExpr" /\ ctl.e.k = "ClosureDecl"
    /\ LET d   == ctl.e.d
           st  == check(d, [checked |-> checked, boundVars |-> boundVars, decls |-> decls])
           bv  == BoundOrder(st.boundVars[d])
           C   == NextAddr(heap)
           m1  == [Mem EXCEPT !.heap = (C :> ClosureObject(d, Len(bv))) @@ heap]
           m2  == setSymbol(m1, symbols, Decls[d].name, C)
           loc == [i \in 1..Len(bv) |-> lookupSymbol(symbols, m2.globalSymbols, bv[i])]
       IN  /\ checked' = st.checked
           /\ boundVars' = st.boundVars
           /\ decls' = st.decls
           /\ IF \E i \in 1..Len(bv) : loc[i] = NullLoc
              THEN SetMem(m2) /\ ctl' = Fault("null dereference")
              ELSE /\ SetMem([m2 EXCEPT !.heap[C].slots = [i \in 1..Len(bv) |-> Load(m2, loc[i])]])
                   /\ ctl' = Value(C)
    /\ UNCHANGED << kont, blocks, symbols, currentContext, cache, sigVars, rtVars, executionCount, compiledClosure, compiles, histVars, cellVars, tagVars >>

\* compiledMethodForSelector: the function of the resolved method
compiledMethodForSelector(obj, sel) ==
    LET mth == methodForSelector(classes, ClassOf(heap, obj), sel)
    IN  IF mth = << 0, 0 >> THEN NullEntry ELSE classes[mth[1]].methodList[mth[2]].function

\* BinOp::evaluateExpr, up to the evaluation of the left operand
BinOpEvaluateExpr ==
    /\ ctl.m = "evalExpr" /\ ctl.e.k = "BinOp"
    /\ kont' = Append(kont, [k |-> "BinOpLHS", e |-> ctl.e])
    /\ ctl' = Eval(OperandOrder(ctl.e)[1])
    /\ UNCHANGED restVars

\* BinOp::evaluateExpr, the left operand evaluated
BinOpLHS ==
    /\ At("value", "BinOpLHS")
    /\ kont' = [kont EXCEPT ![Len(kont)] = [k |-> "BinOpRHS", e |-> Top.e, LHS |-> ctl.v]]
    /\ ctl' = Eval(OperandOrder(Top.e)[2])
    /\ UNCHANGED restVars

\* BinOp::evaluateExpr, both operands evaluated
BinOpRHS ==
    /\ At("value", "BinOpRHS")
    /\ LET op  == Top.e.op
           LHS == Top.LHS
           RHS == ctl.v
       IN  IF isComparison(op) \/ (isInteger(LHS) /\ isInteger(RHS))
           THEN /\ ctl' = IF op = "div" /\ Untag(RHS) = 0
                          THEN Fault("division by zero")
                          ELSE Value(createSmallInteger(evaluateWithIntegers(op, Untag(LHS), Untag(RHS))))
                /\ selectors' = selectors
           ELSE /\ selectors' = Intern(selectors, methodName(op))
                /\ ctl' = IF LHS = 0
                          THEN Fault("null dereference")
                          ELSE IF compiledMethodForSelector(LHS, lookupSelector(selectors', methodName(op))) = NullEntry
                          THEN Fault("method not found")
                          ELSE CallFn("method", compiledMethodForSelector(LHS, lookupSelector(selectors', methodName(op))), LHS, lookupSelector(selectors', methodName(op)), << RHS >>)
    /\ kont' = Front(kont)
    /\ UNCHANGED << blocks, symbols, currentContext, cache, memVars, sigVars, classes, classTable, declVars, histVars, cellVars, tagVars >>

\* Call::evaluateExpr, up to the evaluation of the callee
CallEvaluateExpr ==
    /\ ctl.m = "evalExpr" /\ ctl.e.k = "Call"
    /\ kont' = Append(kont, [k |-> "Call", e |-> ctl.e, phase |-> "callee", obj |-> 0, args |-> << >>])
    /\ ctl' = Eval(ctl.e.callee)
    /\ UNCHANGED restVars

\* Call::evaluateExpr, from `currentContext = &c` to the call through the
\* function pointer
Dispatch(e, obj, args, sels) ==
    IF e.method = ""
    THEN IF needsGC(obj) /\ heap[obj].isa = ClosureClass
         THEN IF heap[obj].invoke.t = "outOfBounds"
              THEN Fault("call through a pointer read past closureTrampolines")
              ELSE CallFn("closure", heap[obj].invoke, obj, 0, args)
         ELSE Fault("assert(obj->isa == &ClosureClass)")
    ELSE LET sel == lookupSelector(sels, e.method)
             mth == compiledMethodForSelector(obj, sel)
         IN  IF mth = NullEntry
             THEN Fault("assert(mth)")
             ELSE CallFn("method", mth, obj, sel, args)

\* Call::evaluateExpr, the callee evaluated
CallCallee ==
    /\ At("value", "Call") /\ Top.phase = "callee"
    /\ LET e == Top.e
       IN  IF ctl.v = 0
           THEN /\ ctl' = Fault("assert(obj)")
                /\ UNCHANGED << kont, selectors, currentContext >>
           ELSE IF Len(e.arguments) > 0
           THEN /\ kont' = [kont EXCEPT ![Len(kont)].phase = "args", ![Len(kont)].obj = ctl.v]
                /\ ctl' = Eval(e.arguments[1])
                /\ UNCHANGED << selectors, currentContext >>
           ELSE /\ kont' = Front(kont)
                /\ currentContext' = "c"
                /\ selectors' = IF e.method = "" THEN selectors ELSE Intern(selectors, e.method)
                /\ ctl' = Dispatch(e, ctl.v, << >>, selectors')
    /\ UNCHANGED << blocks, symbols, cache, memVars, sigVars, classes, classTable, declVars, histVars, cellVars, tagVars >>

\* Call::evaluateExpr, an argument evaluated
CallArgument ==
    /\ At("value", "Call") /\ Top.phase = "args"
    /\ LET e    == Top.e
           args == Append(Top.args, ctl.v)
       IN  IF Len(args) < Len(e.arguments) /\ Len(args) >= MaxArgs
           THEN /\ ctl' = Fault("assert(i<(sizeof(args)/sizeof(Obj)))")
                /\ UNCHANGED << kont, selectors, currentContext >>
           ELSE IF Len(args) < Len(e.arguments)
           THEN /\ kont' = [kont EXCEPT ![Len(kont)].args = args]
                /\ ctl' = Eval(e.arguments[Len(args) + 1])
                /\ UNCHANGED << selectors, currentContext >>
           ELSE /\ kont' = Front(kont)
                /\ currentContext' = "c"
                /\ selectors' = IF e.method = "" THEN selectors ELSE Intern(selectors, e.method)
                /\ ctl' = Dispatch(e, Top.obj, args, selectors')
    /\ UNCHANGED << blocks, symbols, cache, memVars, sigVars, classes, classTable, declVars, histVars, cellVars, tagVars >>

\* callCompiledClosure / callCompiledMethod on an entry point made by the
\* code generator: native code, which returns some value
callCompiled ==
    /\ ctl.m = "call" /\ ctl.fn.t = "compiled"
    /\ \E r \in NativeResults : ctl' = Value(r)
    /\ UNCHANGED << kont, restVars >>

\* The local table entries for the parameters: each name bound to its slot
\* of the argument array of stack frame f (a repeated name keeps the last).
ParamFrame(ps, f) == [x \in Range(ps) |-> ArgLoc(f, CHOOSE i \in DOMAIN ps : ps[i] = x /\ \A j \in DOMAIN ps : ps[j] = x => j <= i)]

\* Local table entries that alias the global variable of each bound name that
\* has one, instead of the closure's own copy.
SlotFrameShared(names, a) == [x \in Range(names) |-> IF x \in DOMAIN globalSymbols THEN globalSymbols[x] ELSE SlotLoc(a, CHOOSE i \in DOMAIN names : names[i] = x)]

\* Local table entries that number the slots from the last name to the first.
SlotFrameReversed(names, a) == [x \in Range(names) |-> SlotLoc(a, Len(names) + 1 - CHOOSE i \in DOMAIN names : names[i] = x)]

\* The local table entries for names kept in consecutive slots of object a.
SlotFrame(names, a) == [x \in Range(names) |-> SlotLoc(a, CHOOSE i \in DOMAIN names : names[i] = x /\ \A j \in DOMAIN names : names[j] = x => j <= i)]

\* closureTrampolineN and ClosureDecl::interpretClosure, up to the
\* interpretation of the body
interpretClosure ==
    /\ ctl.m = "call" /\ ctl.fn.t = "closureTrampoline"
    /\ LET self    == ctl.self
           d       == heap[self].AST
           count   == IncrementCount(executionCount[d])
           compile == ThresholdReached(count)
           entry   == CompiledEntry(d, compiles + 1)
           cc      == IF compile THEN entry ELSE compiledClosure[d]
           native  == cc # NullEntry
           f       == Len(stack) + 1
           frame   == SlotFrame(BoundOrder(boundVars[d]), self) @@ ParamFrame(Decls[d].parameters, f)
       IN  IF currentContext = "null" \/ Len(ctl.args) # ctl.fn.n
           THEN /\ ctl' = Fault(IF currentContext = "null" THEN "*currentContext is null" ELSE "arity mismatch")
                /\ UNCHANGED << kont, symbols, stack, heap, executionCount, compiledClosure, compiles, log, hist >>
           ELSE /\ executionCount' = [executionCount EXCEPT ![d] = count]
                /\ compiles' = IF compile THEN compiles + 1 ELSE compiles
                /\ compiledClosure' = [compiledClosure EXCEPT ![d] = cc]
                /\ heap' = IF compile THEN [heap EXCEPT ![self].invoke = entry] ELSE heap
                /\ \E r \in (IF native THEN NativeResults ELSE {0}) :
                      kont' = kont \o << [k |-> "interpretClosure", d |-> d, n |-> Len(log[d]) + 1, codegen |-> compile, native |-> native, nres |-> r, symsIn |-> symbols],
                                         StatementsFrame(Decls[d].body) >>
                /\ symbols' = Append(symbols, frame)
                /\ stack' = Append(stack, [args |-> ctl.args, self |-> 0, cmd |-> 0])
                /\ ctl' = Done
                /\ log' = [log EXCEPT ![d] = Append(@, [codegen |-> compile, native |-> native, walked |-> TRUE])]
                /\ hist' = Append(hist, NoReturnYet)
    /\ UNCHANGED << blocks, currentContext, cache, globals, globalSymbols, roots, sigVars, rtVars, checked, boundVars, decls, lastInv, late, cellVars, tagVars >>

\* The record of an invocation that returns now.
Returned(fr, walked, h, ep) == [d |-> fr.d, n |-> fr.n, codegen |-> fr.codegen, native |-> fr.native, nres |-> fr.nres, walked |-> walked, executedReturn |-> h.executedReturn, firstRet |-> h.firstRet, result |-> ep.result, symsIn |-> fr.symsIn, symsOut |-> ep.symbols, isReturning |-> ep.isReturning, retVal |-> ep.retVal]

\* ClosureDecl::interpretClosure, after the interpretation of the body
interpretClosureReturn ==
    /\ At("done", "interpretClosure")
    /\ LET ep == Epilogue(retVal, symbols)
       IN  /\ retVal' = ep.retVal
           /\ isReturning' = ep.isReturning
           /\ symbols' = ep.symbols
           /\ ctl' = Value(ep.result)
           /\ lastInv' = Returned(Top, TRUE, Last(hist), ep)
    /\ stack' = Front(stack)
    /\ kont' = Front(kont)
    /\ hist' = Front(hist)
    /\ UNCHANGED << blocks, currentContext, cache, globals, globalSymbols, roots, heap, rtVars, declVars, log, late, cellVars, tagVars >>

\* methodTrampolineN and ClosureDecl::interpretMethod, up to the
\* interpretation of the body or the return of the compiled entry
interpretMethod ==
    /\ ctl.m = "call" /\ ctl.fn.t = "methodTrampoline"
    /\ LET self    == ctl.self
           cls     == ClassOf(heap, self)
           mth     == methodForSelector(classes, cls, ctl.sel)
           d       == classes[mth[1]].methodList[mth[2]].AST
           st      == check(d, [checked |-> checked, boundVars |-> boundVars, decls |-> decls])
           count   == IncrementCount(executionCount[d])
           compile == ThresholdReached(count)
           entry   == CompiledEntry(d, compiles + 1)
           cc      == IF compile THEN entry ELSE compiledClosure[d]
           native  == cc # NullEntry
           f       == Len(stack) + 1
           frame   == SlotFrame(classes[cls].indexedIVarNames, self) @@ ("cmd" :> CmdLoc(f)) @@ ("self" :> SelfLoc(f)) @@ ParamFrame(Decls[d].parameters, f)
           fr      == [k |-> "interpretMethod", d |-> d, n |-> Len(log[d]) + 1, codegen |-> compile, native |-> native, nres |-> 0, symsIn |-> symbols]
       IN  IF currentContext = "null" \/ Len(ctl.args) # ctl.fn.n
           THEN /\ ctl' = Fault(IF currentContext = "null" THEN "*currentContext is null" ELSE "arity mismatch")
                /\ UNCHANGED << kont, symbols, stack, classes, executionCount, compiledClosure, compiles, checked, boundVars, decls, log, hist, lastInv >>
           ELSE /\ checked' = st.checked
                /\ boundVars' = st.boundVars
                /\ decls' = st.decls
                /\ executionCount' = [executionCount EXCEPT ![d] = count]
                /\ compiles' = IF compile THEN compiles + 1 ELSE compiles
                /\ compiledClosure' = [compiledClosure EXCEPT ![d] = cc]
                /\ classes' = IF compile THEN [classes EXCEPT ![mth[1]].methodList[mth[2]].function = entry] ELSE classes
                /\ log' = [log EXCEPT ![d] = Append(@, [codegen |-> compile, native |-> native, walked |-> ~native])]
                /\ IF native
                   THEN /\ \E r \in NativeResults :
                             /\ ctl' = Value(r)
                             /\ lastInv' = Returned([fr EXCEPT !.nres = r], FALSE, NoReturnYet, [result |-> r, retVal |-> retVal, isReturning |-> isReturning, symbols |-> symbols])
                        /\ UNCHANGED << kont, symbols, stack, hist >>
                   ELSE /\ kont' = kont \o << fr, StatementsFrame(Decls[d].body) >>
                        /\ symbols' = Append(symbols, frame)
                        /\ stack' = Append(stack, [args |-> ctl.args, self |-> self, cmd |-> createSmallInteger(ctl.sel)])
                        /\ ctl' = Done
                        /\ hist' = Append(hist, NoReturnYet)
                        /\ lastInv' = lastInv
    /\ UNCHANGED << blocks, currentContext, cache, globals, globalSymbols, roots, heap, sigVars, classTable, selectors, late, cellVars, tagVars >>

\* ClosureDecl::interpretMethod, after the interpretation of the body
interpretMethodReturn ==
    /\ At("done", "interpretMethod")
    /\ LET ep == Epilogue(retVal, symbols)
       IN  /\ retVal' = ep.retVal
           /\ isReturning' = ep.isReturning
           /\ symbols' = ep.symbols
           /\ ctl' = Value(ep.result)
           /\ lastInv' = Returned(Top, TRUE, Last(hist), ep)
    /\ stack' = Front(stack)
    /\ kont' = Front(kont)
    /\ hist' = Front(hist)
    /\ UNCHANGED << blocks, currentContext, cache, globals, globalSymbols, roots, heap, rtVars, declVars, log, late, cellVars, tagVars >>

\* Decl::interpret, up to the evaluation of the initialiser
DeclInterpret ==
    /\ ctl.m = "exec" /\ ctl.s.k = "Decl"
    /\ IF ctl.s.init = NoInit
       THEN /\ SetMem(setSymbol(Mem, symbols, ctl.s.name, 0))
            /\ ctl' = Done
            /\ kont' = kont
       ELSE /\ kont' = Append(kont, [k |-> "Decl", name |-> ctl.s.name])
            /\ ctl' = Eval(ctl.s.init)
            /\ UNCHANGED memVars
    /\ UNCHANGED << blocks, symbols, currentContext, cache, sigVars, rtVars, declVars, histVars, cellVars, tagVars >>

\* Decl::interpret, the initialiser evaluated
DeclSetSymbol ==
    /\ At("value", "Decl")
    /\ SetMem(setSymbol(Mem, symbols, Top.name, ctl.v))
    /\ kont' = Front(kont)
    /\ ctl' = Done
    /\ UNCHANGED << blocks, symbols, currentContext, cache, sigVars, rtVars, declVars, histVars, cellVars, tagVars >>

\* Assignment::interpret, up to the evaluation of the expression
AssignmentInterpret ==
    /\ ctl.m = "exec" /\ ctl.s.k = "Assignment"
    /\ kont' = Append(kont, [k |-> "Assignment", name |-> ctl.s.target.name])
    /\ ctl' = Eval(ctl.s.expr)
    /\ UNCHANGED restVars

\* Assignment::interpret, the expression evaluated
AssignmentSetSymbol ==
    /\ At("value", "Assignment")
    /\ SetMem(setSymbol(Mem, symbols, Top.name, ctl.v))
    /\ kont' = Front(kont)
    /\ ctl' = Done
    /\ UNCHANGED << blocks, symbols, currentContext, cache, sigVars, rtVars, declVars, histVars, cellVars, tagVars >>

\* IfStatement::interpret, up to the evaluation of the condition
IfStatementInterpret ==
    /\ ctl.m = "exec" /\ ctl.s.k = "IfStatement"
    /\ kont' = Append(kont, [k |-> "IfStatement", body |-> ctl.s.body])
    /\ ctl' = Eval(ctl.s.condition)
    /\ UNCHANGED restVars

\* IfStatement::interpret, the condition evaluated
IfStatementCondition ==
    /\ At("value", "IfStatement")
    /\ kont' = IF Truthy(ctl.v) THEN Append(Front(kont), StatementsFrame(Top.body)) ELSE Front(kont)
    /\ ctl' = Done
    /\ UNCHANGED restVars

\* WhileLoop::interpret, up to the first evaluation of the condition
WhileLoopInterpret ==
    /\ ctl.m = "exec" /\ ctl.s.k = "WhileLoop"
    /\ kont' = Append(kont, [k |-> "WhileLoop", condition |-> ctl.s.condition, body |-> ctl.s.body])
    /\ ctl' = Eval(ctl.s.condition)
    /\ UNCHANGED restVars

\* WhileLoop::interpret, the condition evaluated
WhileLoopCondition ==
    /\ At("value", "WhileLoop")
    /\ kont' = IF Truthy(ctl.v) THEN Append(kont, StatementsFrame(Top.body)) ELSE Front(kont)
    /\ ctl' = Done
    /\ UNCHANGED restVars

\* WhileLoop::interpret, the body interpreted: back to the loop header
WhileLoopBody ==
    /\ At("done", "WhileLoop")
    /\ ctl' = Eval(Top.condition)
    /\ UNCHANGED << kont, restVars >>

\* Return::interpret, up to the evaluation of the expression
ReturnInterpret ==
    /\ ctl.m = "exec" /\ ctl.s.k = "Return"
    /\ kont' = Append(kont, [k |-> "Return"])
    /\ ctl' = Eval(ctl.s.expr)
    /\ UNCHANGED restVars

\* The Statements blocks a return statement is in: the block that holds it
\* and the blocks that hold the if statements around it.
Enclosing(ks, i) == \A j \in i..Len(ks) : ks[j].k = "Statements"

MarkReturn(ks) == [i \in 1..Len(ks) |-> IF Enclosing(ks, i) THEN [ks[i] EXCEPT !.ret = TRUE] ELSE ks[i]]

\* Return::interpret, the expression evaluated
ReturnSignal ==
    /\ At("value", "Return")
    /\ retVal' = ctl.v
    /\ isReturning' = TRUE
    /\ kont' = MarkReturn(Front(kont))
    /\ ctl' = Done
    /\ hist' = [hist EXCEPT ![Len(hist)] = IF @.executedReturn THEN @ ELSE [executedReturn |-> TRUE, firstRet |-> ctl.v]]
    /\ UNCHANGED << blocks, symbols, currentContext, cache, memVars, rtVars, declVars, log, lastInv, late, cellVars, tagVars >>

RECURSIVE InternAll(_, _, _)
\* lookupSelector on each method name of a class declaration, in order
InternAll(sels, ms, i) == IF i > Len(ms) THEN sels ELSE InternAll(Intern(sels, Decls[ms[i]].name), ms, i + 1)

\* A Method structure that records no parameters.
MethodEntryNoArity(sels, d) == [selector |-> lookupSelector(sels, Decls[d].name), args |-> 0, function |-> methodTrampolines(0), AST |-> d]

\* The Method structure ClassDecl::interpret fills in for declaration d.
MethodEntry(sels, d) == [selector |-> lookupSelector(sels, Decls[d].name), args |-> Len(Decls[d].parameters), function |-> methodTrampolines(Len(Decls[d].parameters)), AST |-> d]

\* ClassDecl::interpret
ClassDeclInterpret ==
    /\ ctl.m = "exec" /\ ctl.s.k = "ClassDecl"
    /\ LET s       == ctl.s
           clsName == IF s.name # "" THEN s.name ELSE s.superclassName
           super   == IF s.name # "" THEN lookupClass(classTable, s.superclassName) ELSE 0
           sels    == InternAll(selectors, s.methods, 1)
           cls     == [superclass |-> super, className |-> clsName,
                       methodList |-> [i \in 1..Len(s.methods) |-> MethodEntry(sels, s.methods[i])],
                       indexedIVarCount |-> Len(s.ivars), indexedIVarNames |-> s.ivars]
           wide    == {i \in 1..Len(s.methods) : Len(Decls[s.methods[i]].parameters) > MaxArgs}
           first   == CHOOSE i \in wide : \A j \in wide : i <= j
       IN  IF wide # {}
           THEN /\ selectors' = InternAll(selectors, SubSeq(s.methods, 1, first), 1)
                /\ ctl' = Fault("assert(method->args <= 10)")
                /\ UNCHANGED << classes, classTable >>
           ELSE /\ selectors' = sels
                /\ classes' = Append(classes, cls)
                /\ classTable' = (clsName :> (Len(classes) + 1)) @@ classTable
                /\ ctl' = Done
    /\ UNCHANGED << kont, blocks, symbols, currentContext, cache, memVars, sigVars, declVars, histVars, cellVars, tagVars >>

Next ==
    \/ DriverInterpret
    \/ DriverParseFailure
    \/ DriverEmptyLine
    \/ StatementsInterpret
    \/ ExpressionInterpret
    \/ ExpressionInterpretReturn
    \/ ExpressionEvaluate
    \/ ExpressionEvaluateReturn
    \/ NumberEvaluateExpr
    \/ StringLiteralEvaluateExpr
    \/ VarRefEvaluateExpr
    \/ NewExprEvaluateExpr
    \/ ClosureDeclEvaluateExpr
    \/ BinOpEvaluateExpr
    \/ BinOpLHS
    \/ BinOpRHS
    \/ CallEvaluateExpr
    \/ CallCallee
    \/ CallArgument
    \/ callCompiled
    \/ interpretClosure
    \/ interpretClosureReturn
    \/ interpretMethod
    \/ interpretMethodReturn
    \/ DeclInterpret
    \/ DeclSetSymbol
    \/ AssignmentInterpret
    \/ AssignmentSetSymbol
    \/ IfStatementInterpret
    \/ IfStatementCondition
    \/ WhileLoopInterpret
    \/ WhileLoopCondition
    \/ WhileLoopBody
    \/ ReturnInterpret
    \/ ReturnSignal
    \/ ClassDeclInterpret

Spec == Init /\ [][Next]_vars

-----------------------------------------------------------------------------
(* A free-standing Value cell under arbitrary set() calls                  *)

\* null, two small integers, two heap objects
CellValues == {0, createSmallInteger(0), createSmallInteger(5), 8, 16}

\* Value::set(o) on the free-standing cell
CellSet(o) ==
    /\ Len(cellOps) < MaxCellOps
    /\ cellLife.alive
    /\ LET r == ValueSet(cell, cellRoots, o)
       IN  /\ cell' = r.cell
           /\ cellRoots' = r.roots
           /\ cellLife' = [cellLife EXCEPT !.allocs = @ + Cardinality(DOMAIN r.roots \ DOMAIN cellRoots),
                                           !.frees = @ + Cardinality(DOMAIN cellRoots \ DOMAIN r.roots)]
    /\ cellOps' = Append(cellOps, o)
    /\ UNCHANGED << machineVars, tagVars >>

CellNext == \E o \in CellValues : CellSet(o)

\* Value::~Value on the free-standing cell
CellDestroy ==
    /\ cellLife.alive
    /\ cellRoots' = ValueDestroy(cell, cellRoots)
    /\ cellLife' = [cellLife EXCEPT !.alive = FALSE,
                                    !.frees = @ + Cardinality(DOMAIN cellRoots \ DOMAIN cellRoots')]
    /\ UNCHANGED << cell, cellOps, machineVars, tagVars >>

CellLifeNext ==
    \/ CellNext
    \/ CellDestroy

\* A cell just constructed, no program loaded.
InitCell == MachineInitWith(<< >>) /\ CellInit /\ TagInit

SpecCell == InitCell /\ [][CellNext]_vars

\* The cell from its construction to its destruction.
SpecCellLife == InitCell /\ [][CellLifeNext]_vars

-----------------------------------------------------------------------------
(* Small-integer encoding of every integer of the small-integer range      *)

\* The integers of WordBits - 3 bits, signed.
SmallIntegers == (0 - 2^(WordBits - 4)) .. (2^(WordBits - 4) - 1)

\* No program loaded, an integer of the range chosen.
InitTag == MachineInitWith(<< >>) /\ CellInit /\ tagN \in SmallIntegers /\ tagWord = << >>

\* createSmallInteger(tagN)
TagEncode ==
    /\ tagWord = << >>
    /\ tagWord' = << createSmallInteger(tagN) >>
    /\ UNCHANGED << machineVars, cellVars, tagN >>

SpecTag == InitTag /\ [][TagEncode]_vars

-----------------------------------------------------------------------------
(* Properties of tiered execution                                          *)

\* The entries into interpretClosure / interpretMethod of declaration d
\* during which the tree walker interpreted the body.
WalkedEntries(d) == {i \in 1..Len(log[d]) : log[d][i].walked}

\* Every top-level block has been interpreted.
Finished == ctl.m = "done" /\ kont = << >> /\ blocks = << >>

\* C1: for every declaration, entries 1..T-1 into interpretClosure or
\* interpretMethod neither invoke the code generator nor call a compiled
\* entry, entry T invokes the code generator, every entry from T on calls the
\* compiled entry, no entry after T invokes the code generator again, and a
\* compiled entry exists exactly from entry T on.
C1_TieredHandoff ==
    \A d \in DeclIds :
        /\ \A i \in 1..Len(log[d]) :
              /\ i < compileThreshold => ~log[d][i].codegen /\ ~log[d][i].native
              /\ i = compileThreshold => log[d][i].codegen
              /\ i >= compileThreshold => log[d][i].native
              /\ i > compileThreshold => ~log[d][i].codegen
        /\ (compiledClosure[d] # NullEntry) <=> (Len(log[d]) >= compileThreshold)
        /\ executionCount[d] = Len(log[d])

\* C1 witness: a declaration entered more often than the threshold, so that
\* entries before, at and after the compilation have all happened.
C1_Witness == \E d \in DeclIds : Len(log[d]) > compileThreshold /\ log[d][compileThreshold].codegen

\* C2: an invocation that found a compiled entry after the threshold check
\* returns the compiled entry's result and the tree walker did not run.
C2_CompiledEntryOnly == lastInv.native => (~lastInv.walked /\ lastInv.result = lastInv.nres)

\* C3: when closure g, declared once, has been called compileThreshold + Extra
\* times (Extra = 2) through Call, the tree walker has interpreted its body
\* exactly compileThreshold - 1 times.
C3_WalkerRuns ==
    (Finished /\ DOMAIN globalSymbols = {"g", "n"} /\ Load(Mem, globalSymbols["n"]) = createSmallInteger(compileThreshold + Extra))
        => Cardinality(WalkedEntries(1)) = compileThreshold - 1

\* One step keeps every compiled entry in place: a declaration's
\* compiledClosure, a closure object's invoke, a Method's function.
MonotonicStep ==
    /\ \A d \in DeclIds : compiledClosure[d] # NullEntry => compiledClosure'[d] = compiledClosure[d]
    /\ \A a \in DOMAIN heap : heap[a].invoke.t = "compiled" => a \in DOMAIN heap' /\ heap'[a].invoke = heap[a].invoke
    /\ \A c \in DOMAIN classes : \A i \in DOMAIN classes[c].methodList :
          classes[c].methodList[i].function.t = "compiled"
              => c \in DOMAIN classes' /\ classes'[c].methodList[i].function = classes[c].methodList[i].function

\* C4: once a declaration's compiledClosure is non-null it never changes, and
\* a closure object's invoke or a Method's function that holds a compiled
\* entry keeps that entry in every later state.
C4_MonotonicSwap == [][MonotonicStep]_vars

\* C4 witness: a closure object whose invoke is a compiled entry while its
\* declaration has been entered again after the compilation.
C4_Witness == \E a \in DOMAIN heap : heap[a].invoke.t = "compiled" /\ Len(log[heap[a].AST]) > compileThreshold

\* The entry points a closure object or Method of declaration d may hold.
EntryPointOf(fn, d, tramp) == fn = tramp \/ (fn.t = "compiled" /\ fn.d = d /\ fn = compiledClosure[d])

EntryPointsInv ==
    /\ \A a \in DOMAIN heap : heap[a].isa = ClosureClass
          => EntryPointOf(heap[a].invoke, heap[a].AST, closureTrampolines(Len(Decls[heap[a].AST].parameters)))
    /\ \A c \in DOMAIN classes : \A i \in DOMAIN classes[c].methodList :
          LET mth == classes[c].methodList[i]
          IN  EntryPointOf(mth.function, mth.AST, methodTrampolines(Len(Decls[mth.AST].parameters)))

\* A closure object made in this step starts at the compiled entry of its
\* declaration if there is one, else at the trampoline of its arity.
CreationStep ==
    \A a \in (DOMAIN heap') \ (DOMAIN heap) : heap'[a].isa = ClosureClass
        => LET d == heap'[a].AST
           IN  heap'[a].invoke = IF compiledClosure[d].t = "compiled"
                                 THEN compiledClosure[d]
                                 ELSE closureTrampolines(Len(Decls[d].parameters))

-----------------------------------------------------------------------------
(* Properties of value cells and globals                                   *)

\* Value cell v is rooted as its held value requires: it has a slot exactly
\* when the value needs the collector, and the slot holds that value.
Rooted(v, rts) ==
    /\ (v.holder # 0) <=> needsGC(v.object)
    /\ v.holder # 0 => v.holder \in DOMAIN rts /\ rts[v.holder] = v.object

\* C6: after any sequence of set() calls the free-standing cell has a root
\* slot if and only if the value it holds satisfies needsGC, and that slot
\* holds the value.
C6_CellRooted == Rooted(cell, cellRoots)

\* C6 witness: the cell holds a heap object again after it held a value the
\* collector does not see, three set() calls in.
C6_Witness == Len(cellOps) >= 3 /\ needsGC(cell.object) /\ ~needsGC(cellOps[2]) /\ needsGC(cellOps[1])

\* C7: every global whose value satisfies needsGC has an uncollectable root
\* slot that holds exactly that value.
C7_GlobalsRooted ==
    \A x \in DOMAIN globalSymbols :
        LET v == globals[globalSymbols[x][2]]
        IN  needsGC(v.object) => v.holder # 0 /\ v.holder \in DOMAIN roots /\ roots[v.holder] = v.object

-----------------------------------------------------------------------------
(* Properties of the return signal and of the local frames                 *)

\* C8: no statement is interpreted in a block after one of its statements, or
\* a statement of an if-body within it, executed a return, and an invocation
\* that executed a return statement returns the value of the first one.
C8_FirstReturnWins == ~late /\ (lastInv.walked /\ lastInv.executedReturn => lastInv.result = lastInv.firstRet)

\* C9: when an interpreted invocation has returned, isReturning is false and
\* retVal is null, and if its body executed no return statement it returned
\* null.
C9_ReturnSignalCleared ==
    lastInv.walked => /\ lastInv.isReturning = FALSE
                      /\ lastInv.retVal = 0
                      /\ ~lastInv.executedReturn => lastInv.result = 0

\* C10: when an invocation returns, interpreted or compiled, by a return
\* statement or not, the stack of local symbol tables is the one the
\* invocation was entered with, and while a body is interpreted its table is
\* on top of the tables of its callers.
C10_FramesBalanced ==
    /\ lastInv.d # 0 => lastInv.symsOut = lastInv.symsIn
    /\ \A i \in 1..Len(kont) : kont[i].k \in {"interpretClosure", "interpretMethod"}
          => Len(symbols) > Len(kont[i].symsIn) /\ [j \in 1..Len(kont[i].symsIn) |-> symbols[j]] = kont[i].symsIn

\* C10 witness: a nested invocation has returned by a return statement to a
\* caller that has a local table of its own.
C10_Witness == lastInv.walked /\ lastInv.executedReturn /\ lastInv.symsIn # << >> /\ symbols = lastInv.symsIn

-----------------------------------------------------------------------------
(* Properties of the small-integer encoding                                *)

\* C19: for every integer n of the small-integer range, the word made by
\* createSmallInteger(n) decodes by arithmetic shift right by 3 to n, has its
\* low bit set, is not null and does not satisfy needsGC.
C19_TagRoundTrip ==
    tagWord # << >> => LET w == tagWord[1]
                       IN  /\ Untag(w) = tagN
                           /\ w % 2 = 1
                           /\ w # 0
                           /\ ~needsGC(w)

\* C19 witness: the most negative integer of the range has been encoded.
C19_Witness == tagWord # << >> /\ tagN = 0 - 2^(WordBits - 4)

\* The word a finished program left in a global variable.
GlobalValue(x) == globals[globalSymbols[x][2]].object

\* The block a statement enters next is this body.
EntersBody(body) == kont' # << >> /\ Last(kont').k = "Statements" /\ Last(kont').statements = body /\ Last(kont').i = 1

\* C11: the body of an if statement or of a while loop is interpreted exactly
\* when the word of the condition, its three low bits cleared, is not zero:
\* null and the small integer 0 skip the body (and leave the loop), every
\* other word, negative small integers and object addresses included, runs it.
C11_ConditionDecides ==
    [][/\ At("value", "IfStatement") =>
            /\ EntersBody(Top.body) <=> ctl.v \notin 0..7
            /\ ctl.v \in 0..7 => kont' = Front(kont)
       /\ At("value", "WhileLoop") =>
            /\ EntersBody(Top.body) <=> ctl.v \notin 0..7
            /\ ctl.v \in 0..7 => kont' = Front(kont)]_vars

\* if (z) on null and if (0) were skipped, if (0 - 1) and if (o) on an object
\* ran their bodies, while (s) on a string ran once and stopped on 0.
C11_Witness ==
    /\ Finished
    /\ {"z", "t", "s", "s2"} \subseteq DOMAIN globalSymbols
    /\ GlobalValue("z") = createSmallInteger(4)
    /\ GlobalValue("t") = createSmallInteger(8)
    /\ GlobalValue("s") = createSmallInteger(0)

\* An expression built from number and string literals by binary operators.
RECURSIVE ConstantExpr(_)
ConstantExpr(e) ==
    \/ e.k = "Number"
    \/ e.k = "StringLiteral"
    \/ e.k = "BinOp" /\ ConstantExpr(e.lhs) /\ ConstantExpr(e.rhs)

\* C12: the first completed evaluation of a constant expression stores its
\* value in the node; a stored value never changes; evaluateExpr of a constant
\* node (the expression or any of its constant subtrees) is entered only while
\* nothing is stored; an evaluation that finds a stored value returns it
\* without touching the heap, so a string literal in a loop yields the same
\* String object every time.
C12_ConstantCached ==
    [][/\ At("value", "evaluate") /\ ConstantExpr(Top.e) => cache'[Top.e.id].object = ctl.v /\ ctl.v # 0
       /\ \A id \in NodeIds : cache[id].object # 0 => cache'[id].object = cache[id].object
       /\ ctl'.m = "evalExpr" /\ ConstantExpr(ctl'.e) => cache[ctl'.e.id].object = 0
       /\ ctl.m = "eval" /\ ConstantExpr(ctl.e) /\ cache[ctl.e.id].object # 0 =>
              /\ ctl' = Value(cache[ctl.e.id].object)
              /\ kont' = kont
              /\ heap' = heap]_vars

\* The loop assigned s1 = s2; s2 = "hi"; i = 2 + 3 * 4 twice: both rounds
\* saw the same String object, and the sum is stored in its node.
C12_Witness ==
    /\ Finished
    /\ {"s1", "s2", "i"} \subseteq DOMAIN globalSymbols
    /\ needsGC(GlobalValue("s1"))
    /\ GlobalValue("s1") = GlobalValue("s2")
    /\ heap[GlobalValue("s2")].isa = StringClass
    /\ \E id \in NodeIds : cache[id].object = createSmallInteger(14) /\ GlobalValue("i") = createSmallInteger(14)

RECURSIVE ReadsOf(_)
RECURSIVE ReadsOfAll(_, _)
RECURSIVE NestedClosures(_, _)

\* The names read by the variable references of a list of nodes.
ReadsOfAll(ss, i) == IF i > Len(ss) THEN {} ELSE ReadsOf(ss[i]) \cup ReadsOfAll(ss, i + 1)

\* The names read by the variable references of a node; a nested closure
\* reads its bound names.
ReadsOf(s) ==
    CASE s.k = "VarRef" -> {s.name}
      [] s.k = "BinOp" -> ReadsOf(s.lhs) \cup ReadsOf(s.rhs)
      [] s.k = "Call" -> ReadsOf(s.callee) \cup ReadsOfAll(s.arguments, 1)
      [] s.k = "Decl" -> IF s.init = NoInit THEN {} ELSE ReadsOf(s.init)
      [] s.k = "Assignment" -> ReadsOf(s.expr)
      [] s.k = "Return" -> ReadsOf(s.expr)
      [] s.k \in {"IfStatement", "WhileLoop"} -> ReadsOf(s.condition) \cup ReadsOfAll(s.body, 1)
      [] s.k = "ClosureDecl" -> boundVars[s.d]
      [] OTHER -> {}

\* The closures declared by the statements of a body, nested blocks included.
NestedClosures(ss, i) ==
    IF i > Len(ss) THEN {}
    ELSE (CASE ss[i].k = "ClosureDecl" -> {ss[i].d}
            [] ss[i].k \in {"IfStatement", "WhileLoop"} -> NestedClosures(ss[i].body, 1)
            [] OTHER -> {}) \cup NestedClosures(ss, i + 1)

\* C13: once a closure has been checked, its boundVars shares no name with
\* its decls or its parameters; every name its body reads (the bound names of
\* nested closures included) that is neither declared in it nor a parameter
\* is in boundVars; and the name of a nested closure is in its decls and not
\* in its boundVars.
C13_CaptureSets ==
    \A d \in 1..Len(Decls) :
        checked[d] =>
            LET own == decls[d] \cup Range(Decls[d].parameters)
            IN  /\ boundVars[d] \cap own = {}
                /\ ReadsOfAll(Decls[d].body, 1) \ own \subseteq boundVars[d]
                /\ \A n \in NestedClosures(Decls[d].body, 1) :
                       Decls[n].name \in decls[d] /\ Decls[n].name \notin boundVars[d]

\* The location an assignment (or declaration) that has its value stores to.
StoreTarget == lookupSymbol(symbols, globalSymbols, Top.name)

\* var c = 5; two closure objects of fun inc() { c = c + 1; return c; }, the
\* first kept in a; c = 7; r1 = inc(); r2 = inc(); r3 = a().
IncProgramDone == Finished /\ {"c", "a", "inc", "r1", "r2", "r3"} \subseteq DOMAIN globalSymbols

\* C14: a closure holds copies of its bound variables taken when it was
\* created.  A store to a variable outside any closure object changes no slot
\* of any closure; a store to a bound variable inside a closure changes that
\* one slot only (no global cell, no argument, no other object), and the
\* slot keeps the value for the next invocation.  In the inc program the
\* second object counts 6, 7 from the 5 it captured although c was set to 7
\* later, the first object counts 6 on its own, and c stays 7.
C14_CaptureByValue ==
    /\ [](IncProgramDone =>
            /\ GlobalValue("r1") = createSmallInteger(6)
            /\ GlobalValue("r2") = createSmallInteger(7)
            /\ GlobalValue("r3") = createSmallInteger(6)
            /\ GlobalValue("c") = createSmallInteger(7)
            /\ heap[GlobalValue("inc")].slots = << createSmallInteger(7) >>
            /\ heap[GlobalValue("a")].slots = << createSmallInteger(6) >>)
    /\ [][(At("value", "Assignment") \/ At("value", "Decl")) =>
            IF StoreTarget[1] = "slot"
            THEN /\ globals' = globals
                 /\ stack' = stack
                 /\ heap' = [heap EXCEPT ![StoreTarget[2]].slots[StoreTarget[3]] = ctl.v]
            ELSE \A a \in DOMAIN heap : heap'[a].slots = heap[a].slots]_vars

C14_Witness == IncProgramDone /\ GlobalValue("a") # GlobalValue("inc") /\ GlobalValue("r3") = createSmallInteger(6)

\* The index of a bound name in the slots of a closure of declaration d, in
\* the state after the step (0 when the closure has no slot of that name).
SlotOf(d, x) ==
    LET bv == BoundOrder(boundVars'[d])
    IN  IF \E i \in 1..Len(bv) : bv[i] = x THEN CHOOSE i \in 1..Len(bv) : bv[i] = x ELSE 0

\* C15: the step that evaluates a closure declaration named f to a value
\* creates a new object of that declaration, leaves f resolving, in the
\* current scope, to a location that holds the new object, and, when the body
\* reads f (f being neither a parameter nor declared in the body), leaves the
\* new object's slot for f holding the new object itself.
C15_SelfReference ==
    [][ctl.m = "evalExpr" /\ ctl.e.k = "ClosureDecl" /\ ctl'.m = "value" =>
          LET d == ctl.e.d
              f == Decls[d].name
              C == ctl'.v
          IN  /\ C \notin DOMAIN heap
              /\ C \in DOMAIN heap' /\ heap'[C].AST = d
              /\ lookupSymbol(symbols', globalSymbols', f) # NullLoc
              /\ Load(Mem', lookupSymbol(symbols', globalSymbols', f)) = C
              /\ f \in ReadsOfAll(Decls[d].body, 1) \ (decls'[d] \cup Range(Decls[d].parameters)) =>
                     /\ SlotOf(d, f) # 0
                     /\ heap'[C].slots[SlotOf(d, f)] = C]_vars

\* C16: whenever a closure trampoline or a method trampoline is about to be
\* entered, currentContext points to the context of the interpreter that
\* dispatches the call, whether the dispatch is that of a Call expression or
\* the method send of a binary operator.
C16_ContextSet ==
    ctl.m = "call" /\ ctl.fn.t \in {"closureTrampoline", "methodTrampoline"} => currentContext = "c"

\* Every name bound in some frame or in the globals, and one bound nowhere.
KnownNames == UNION {DOMAIN symbols[i] : i \in 1..Len(symbols)} \cup DOMAIN globalSymbols \cup {"nosuch"}

\* A variable reference has just been evaluated to a value.
VarRefValue(x) == At("value", "evaluate") /\ Top.e = VarRef(x)

\* C17: for every name, lookupSymbol yields the binding of the top frame of
\* the symbol table stack when that frame binds the name, else the global
\* binding when there is one, else null; a binding that only a lower frame
\* holds is never the answer, and the value of a variable reference is the
\* word at that location.
C17_LookupOrder ==
    /\ \A x \in KnownNames :
          LET addr == lookupSymbol(symbols, globalSymbols, x)
              n    == Len(symbols)
          IN  /\ n > 0 /\ x \in DOMAIN symbols[n] => addr = symbols[n][x]
              /\ ~(n > 0 /\ x \in DOMAIN symbols[n]) /\ x \in DOMAIN globalSymbols => addr = globalSymbols[x]
              /\ ~(n > 0 /\ x \in DOMAIN symbols[n]) /\ x \notin DOMAIN globalSymbols => addr = <<"null">>
    /\ \A x \in KnownNames :
          VarRefValue(x) /\ ~(symbols # << >> /\ x \in DOMAIN symbols[Len(symbols)]) =>
              x \in DOMAIN globalSymbols /\ ctl.v = GlobalValue(x)

\* Inside u, called from f2(1): y is the parameter of f2 in the frame below
\* and the global 5; the reference to y in u has produced 5.
C17_Witness ==
    /\ Len(symbols) = 2
    /\ "y" \in DOMAIN symbols[1] /\ Load(Mem, symbols[1]["y"]) = createSmallInteger(1)
    /\ "y" \notin DOMAIN symbols[2]
    /\ VarRefValue("y")
    /\ ctl.v = createSmallInteger(5)

\* C18: a declaration or an assignment that has its value stores it with
\* setSymbol.  When the name resolves, the word at the resolved location
\* becomes the value, and the list of global cells keeps its length, the
\* globals map and every frame's bindings stay as they are.  When it does
\* not resolve, one global cell holding the value is added after the
\* existing ones, which are untouched, the map gains exactly that name, the
\* frames stay as they are, and looking the name up now yields a location
\* that holds the value.
C18_SetSymbol ==
    [][(At("value", "Assignment") \/ At("value", "Decl")) =>
          LET x == Top.name
              after == lookupSymbol(symbols', globalSymbols', x)
          IN  /\ symbols' = symbols
              /\ after # <<"null">> /\ Load(Mem', after) = ctl.v
              /\ IF StoreTarget # <<"null">>
                 THEN /\ after = StoreTarget
                      /\ Len(globals') = Len(globals)
                      /\ globalSymbols' = globalSymbols
                 ELSE /\ Len(globals') = Len(globals) + 1
                      /\ SubSeq(globals', 1, Len(globals)) = globals
                      /\ globals'[Len(globals')].object = ctl.v
                      /\ DOMAIN globalSymbols' = DOMAIN globalSymbols \cup {x}
                      /\ \A y \in DOMAIN globalSymbols : globalSymbols'[y] = globalSymbols[y]
                      /\ globalSymbols'[x] = <<"global", Len(globals')>>]_vars

\* Inside u, called from f2(1): var x = y found no binding for x in the frame
\* of u or in the globals and made the global x, which now holds 5.
C18_Witness ==
    /\ Len(symbols) = 2
    /\ ctl.m = "done"
    /\ "x" \in DOMAIN globalSymbols /\ "x" \notin DOMAIN symbols[2]
    /\ GlobalValue("x") = createSmallInteger(5)
    /\ "r" \notin DOMAIN globalSymbols

\* Both operands of a binary operation are evaluated: op applied to L and R.
IntegerPath(op, L, R) == op \in {"eq", "ne", "lt", "gt", "le", "ge"} \/ (L % 2 = 1 /\ R % 2 = 1)

\* C20: with both operands evaluated, a binary operation whose operator is a
\* comparison or whose operands are both small integers yields the boxed
\* result of the operator on the two words shifted right by three (or stops
\* on a division by zero) and calls nothing; every other binary operation
\* yields no value of its own but calls the method named mul, div, add or sub
\* of the left operand with the right operand as the only argument (or stops
\* when there is no such method), and the value of that call is the value of
\* the operation: o + 3 with add(x) { return x; } is 3.
C20_BinOpPaths ==
    /\ [][At("value", "BinOpRHS") =>
            LET op == Top.e.op
                L  == Top.LHS
                R  == ctl.v
            IN  IF IntegerPath(op, L, R)
                THEN /\ ctl'.m \in {"value", "fault"}
                     /\ ctl'.m = "value" => ctl'.v = createSmallInteger(evaluateWithIntegers(op, L \div 8, R \div 8))
                     /\ ctl'.m = "fault" => op = "div" /\ R \div 8 = 0
                ELSE /\ ctl'.m \in {"call", "fault"}
                     /\ op \in {"mul", "div", "add", "sub"}
                     /\ ctl'.m = "call" =>
                           /\ ctl'.self = L
                           /\ ctl'.args = << R >>
                           /\ selectors'[ctl'.sel] = op
                           /\ ctl'.fn = compiledMethodForSelector(L, ctl'.sel)]_vars
    /\ [](Finished /\ {"o", "r", "e", "l", "d", "s2"} \subseteq DOMAIN globalSymbols =>
            /\ GlobalValue("r") = createSmallInteger(3)
            /\ GlobalValue("e") = createSmallInteger(1)
            /\ GlobalValue("l") = createSmallInteger(1)
            /\ GlobalValue("d") = createSmallInteger(0 - 3))

\* o + 3 went through add and gave 3; o == o and 1 < o compared words.
C20_Witness ==
    /\ Finished
    /\ {"o", "r", "e", "l", "d", "s2"} \subseteq DOMAIN globalSymbols
    /\ needsGC(GlobalValue("o"))
    /\ GlobalValue("r") = createSmallInteger(3)
    /\ GlobalValue("e") = createSmallInteger(1)

\* C21: a == b yields true (the small integer 1) exactly when the two operand
\* words are the same word, and a != b exactly when they are not; null and
\* the small integer 0 are different words.
C21_WordIdentity ==
    [][At("value", "BinOpRHS") /\ Top.e.op \in {"eq", "ne"} =>
          /\ ctl'.m = "value"
          /\ Top.e.op = "eq" => (ctl'.v = createSmallInteger(1) <=> Top.LHS = ctl.v)
          /\ Top.e.op = "ne" => (ctl'.v = createSmallInteger(1) <=> Top.LHS # ctl.v)
          /\ ctl'.v \in {createSmallInteger(0), createSmallInteger(1)}]_vars

RECURSIVE MostDerivedDecl(_, _)
\* The declaration of the method named x in class cls or, failing that, in
\* the nearest superclass that declares one (0 when there is none).
MostDerivedDecl(cls, x) ==
    IF cls = 0
    THEN 0
    ELSE LET ml   == classes[cls].methodList
             here == {i \in 1..Len(ml) : Decls[ml[i].AST].name = x}
         IN  IF here # {}
             THEN ml[CHOOSE i \in here : \A j \in here : i <= j].AST
             ELSE MostDerivedDecl(classes[cls].superclass, x)

\* class E { q } and class F : E { q } are declared and one instance of each
\* has received q.
OverrideProgramDone == Finished /\ {"oe", "of", "re", "rf"} \subseteq DOMAIN globalSymbols

\* C22: every entry into a method trampoline that starts interpreting a body
\* interprets the declaration found for the selector's name in the receiver's
\* class or its nearest superclass declaring it, which is also the
\* declaration whose function the dispatch called; with q defined in E and
\* in its subclass F, q on the F instance runs F's q (6) and q on the E
\* instance runs E's q (5).
C22_OverrideDispatch ==
    /\ [][ctl.m = "call" /\ ctl.fn.t = "methodTrampoline" /\ ctl'.m = "done" =>
            LET cls == IF ctl.self % 2 = 1 THEN SmallIntClass ELSE heap[ctl.self].isa
                d   == MostDerivedDecl(cls, selectors[ctl.sel])
            IN  /\ d # 0
                /\ kont'[Len(kont') - 1].k = "interpretMethod"
                /\ kont'[Len(kont') - 1].d = d
                /\ Last(kont').statements = Decls[d].body
                /\ \E c \in 1..Len(classes) : \E i \in 1..Len(classes[c].methodList) :
                       classes[c].methodList[i].AST = d /\ classes[c].methodList[i].function = ctl.fn]_vars
    /\ [](OverrideProgramDone =>
            /\ GlobalValue("rf") = createSmallInteger(6)
            /\ GlobalValue("re") = createSmallInteger(5)
            /\ Len(log[16]) = 1 /\ Len(log[5]) = 1)

C22_Witness ==
    /\ OverrideProgramDone
    /\ classes[heap[GlobalValue("of")].isa].superclass = heap[GlobalValue("oe")].isa
    /\ GlobalValue("rf") = createSmallInteger(6)

\* C23: no closure object and no method belongs to a declaration with more
\* than 10 parameters, every function pointer taken from the trampoline
\* tables was read at an index in 0..10, and the argument buffer of a call
\* in progress never holds more than 10 words.
C23_ArityLimit ==
    /\ \A a \in DOMAIN heap :
          heap[a].isa = ClosureClass =>
              /\ Len(Decls[heap[a].AST].parameters) <= 10
              /\ heap[a].invoke.t # "outOfBounds"
    /\ \A c \in 1..Len(classes) : \A i \in 1..Len(classes[c].methodList) :
          /\ classes[c].methodList[i].args <= 10
          /\ classes[c].methodList[i].function.t # "outOfBounds"
    /\ \A i \in 1..Len(kont) : kont[i].k = "Call" => Len(kont[i].args) <= 10

\* The variable reference about to be evaluated resolves neither in the top
\* local frame nor in the globals.
UnboundReference == ctl.m = "evalExpr" /\ ctl.e.k = "VarRef" /\ lookupSymbol(symbols, globalSymbols, ctl.e.name) = <<"null">>

\* C24: evaluating an unbound variable reference is an error of the language:
\* it yields no value and abandons the statement block in a defined way (the
\* interpreter does not go down), and no later statement of the block runs.
C24_UnboundNameError ==
    [][UnboundReference => ctl'.m \notin {"value", "fault"} /\ ctl'.m # "exec"]_vars

\* The driver is about to read its next input.
AtPrompt == ctl.m = "done" /\ kont = << >> /\ blocks # << >>

\* Everything the interpreter context and the runtime hold.
ContextState == << symbols, stack, globals, globalSymbols, roots, retVal, isReturning, currentContext, heap, classes, classTable, selectors, executionCount, compiledClosure, checked, boundVars, decls, cache, compiles >>

\* C25: a REPL line that does not parse is dropped and the driver is back at
\* its prompt with the context as it was and nothing interpreted; an empty
\* line ends the loop (exit code 0) with the remaining input unread; a file
\* that does not parse ends the process with a non-zero exit code, nothing
\* having been executed; nothing happens after the process has ended.
C25_ParseFailures ==
    /\ [][/\ AtPrompt /\ Head(blocks) = LineSyntaxError =>
                ctl' = ctl /\ kont' = kont /\ blocks' = Tail(blocks) /\ ContextState' = ContextState
          /\ AtPrompt /\ Head(blocks) = EmptyLine =>
                ctl'.m = "exit" /\ ctl'.code = 0 /\ kont' = kont /\ blocks' = blocks /\ ContextState' = ContextState
          /\ AtPrompt /\ Head(blocks) = FileSyntaxError =>
                ctl'.m = "exit" /\ ctl'.code # 0 /\ kont' = kont /\ blocks' = blocks /\ ContextState' = ContextState
          /\ ctl.m # "exit"]_vars
    /\ [](ctl.m = "exit" /\ ctl.code # 0 => globals = << >> /\ heap = << >> /\ Len(classes) = 3 /\ log = [d \in DeclIds |-> << >>])

\* The line after the one that did not parse was interpreted, and the empty
\* line ended the loop before the last line.
C25_Witness ==
    /\ ctl.m = "exit" /\ ctl.code = 0
    /\ DOMAIN globalSymbols = {"a1", "a2"}
    /\ Len(blocks) = 2

\* The evaluation that starts with this step was asked for by a frame of
\* kind k.
StartsFor(k) == ctl'.m = "eval" /\ kont' # << >> /\ Last(kont').k = k

\* The digits program has run to its end.
DigitsProgramDone == Finished /\ {"tr", "d1", "t1", "d2", "t2"} \subseteq DOMAIN globalSymbols

\* C26: the evaluation a binary operation starts first is that of its left
\* operand; that of its right operand starts when the left operand's value
\* is in hand; a call evaluates its callee first, then argument k when the
\* callee's value and the values of arguments 1..k-1 are in hand, and the
\* call is dispatched with the values of all arguments.  With closures that
\* append a digit to tr, e1() - e2() leaves 12, and mk()(e1(), e2()) leaves
\* 3124 (callee, arguments left to right, then the body of the callee).
C26_EvaluationOrder ==
    /\ [][/\ StartsFor("BinOpLHS") => ctl'.e = Last(kont').e.lhs
          /\ StartsFor("BinOpRHS") =>
                ctl'.e = Last(kont').e.rhs /\ ctl.m = "value" /\ Last(kont').LHS = ctl.v
          /\ StartsFor("Call") /\ Last(kont').phase = "callee" => ctl'.e = Last(kont').e.callee
          /\ StartsFor("Call") /\ Last(kont').phase = "args" =>
                /\ ctl.m = "value"
                /\ Last(kont').obj # 0
                /\ ctl'.e = Last(kont').e.arguments[Len(Last(kont').args) + 1]
                /\ Last(kont').args \in {Top.args, Append(Top.args, ctl.v)}
          /\ ctl'.m = "call" /\ At("value", "Call") =>
                /\ Len(ctl'.args) = Len(Top.e.arguments)
                /\ ctl'.self = (IF Top.phase = "callee" THEN ctl.v ELSE Top.obj)]_vars
    /\ [](DigitsProgramDone =>
            /\ GlobalValue("t1") = createSmallInteger(12)
            /\ GlobalValue("d1") = createSmallInteger(0 - 1)
            /\ GlobalValue("t2") = createSmallInteger(3124)
            /\ GlobalValue("d2") = createSmallInteger(0 - 1))

C26_Witness == DigitsProgramDone /\ GlobalValue("tr") = createSmallInteger(3124)

\* C27: when the body of a while loop has been left by a return statement
\* during a closure or method invocation, the loop ends there: its condition
\* is not evaluated again and the return value stays as the statement set it.
C27_ReturnEndsLoop ==
    [][At("done", "WhileLoop") /\ isReturning /\ symbols # << >> =>
          /\ ctl'.m # "eval"
          /\ kont' = Front(kont)
          /\ retVal' = retVal /\ isReturning']_vars

\* C28: whenever the driver is about to interpret a parsed top-level block,
\* isReturning is false, so the first statement of the block is executed.
C28_BlockStartsClean ==
    AtPrompt /\ Head(blocks) \notin {FileSyntaxError, LineSyntaxError, EmptyLine} => ~isReturning

\* C29: a variable declaration executed inside the body of an interpreted
\* closure or method makes a variable of that activation: the global cells
\* keep their number and their contents and the globals map stays as it is.
C29_LocalDeclaration ==
    [][(At("value", "Decl") \/ (ctl.m = "exec" /\ ctl.s.k = "Decl" /\ ctl.s.init = NoInit)) /\ symbols # << >> =>
          /\ globalSymbols' = globalSymbols
          /\ [i \in 1..Len(globals) |-> globals'[i].object] = [i \in 1..Len(globals) |-> globals[i].object]
          /\ Len(globals') = Len(globals)]_vars

-----------------------------------------------------------------------------
(* Allocation and release of the root slot over the life of a cell         *)

BoolCount(b) == IF b THEN 1 ELSE 0

\* C30: a set() call allocates a root slot exactly when the held value did
\* not need the collector and the new one does, frees one exactly when the
\* held value needed it and the new one does not, and between two heap
\* objects keeps the same slot, now holding the new object, allocating and
\* freeing nothing; once the cell is destroyed every slot allocated for it
\* has been freed.
C30_RootAccounting ==
    /\ [][cellOps' # cellOps =>
            LET was == needsGC(cell.object)
                now == needsGC(Last(cellOps'))
            IN  /\ cellLife'.allocs = cellLife.allocs + BoolCount(~was /\ now)
                /\ cellLife'.frees = cellLife.frees + BoolCount(was /\ ~now)
                /\ was /\ now =>
                      /\ cell'.holder = cell.holder
                      /\ DOMAIN cellRoots' = DOMAIN cellRoots
                      /\ cellRoots'[cell.holder] = Last(cellOps')]_vars
    /\ [](~cellLife.alive => cellLife.allocs = cellLife.frees /\ cellRoots = << >>)

\* Destroyed after holding an object, an integer and an object again.
C30_Witness == ~cellLife.alive /\ cellLife.allocs = 2 /\ Len(cellOps) = 3 /\ needsGC(cellOps[3])

-----------------------------------------------------------------------------
(* The globals                                                             *)

\* C31: no step removes a global cell or moves a name that has a global
\* cell to another cell, and at every moment the names of the globals map
\* and the global cells correspond one to one.
C31_GlobalsAppendOnly ==
    /\ [][/\ Len(globals') >= Len(globals)
          /\ \A n \in DOMAIN globalSymbols :
                n \in DOMAIN globalSymbols' /\ globalSymbols'[n] = globalSymbols[n]]_vars
    /\ [](/\ Cardinality(DOMAIN globalSymbols) = Len(globals)
          /\ \A i \in 1..Len(globals) :
                Cardinality({n \in DOMAIN globalSymbols : globalSymbols[n] = GlobalLoc(i)}) = 1)

\* Five globals, the first of them assigned again after its creation.
C31_Witness ==
    /\ Len(globals) >= 5
    /\ "tr" \in DOMAIN globalSymbols
    /\ globalSymbols["tr"] = GlobalLoc(1)
    /\ GlobalValue("tr") = createSmallInteger(12)

-----------------------------------------------------------------------------
(* Capture analysis and the layout of closure objects                      *)

\* The values a closure object of declaration d would capture now, by name.
CapturedNow(d) == [x \in boundVars'[d] |-> Load(Mem', lookupSymbol(symbols', globalSymbols', x))]

\* C32: once a declaration is checked, its boundVars and decls never change;
\* every closure object has as many slots as its declaration has bound
\* variables; the step that creates a closure object leaves, for each bound
\* name, the name's value in one slot of the object, and every step that
\* enters the interpreted body of that object binds the name to that same
\* slot of it.
C32_CaptureLayout ==
    /\ [][\A d \in DeclIds : checked[d] =>
              checked'[d] /\ boundVars'[d] = boundVars[d] /\ decls'[d] = decls[d]]_vars
    /\ [](\A a \in DOMAIN heap : heap[a].isa = ClosureClass =>
              checked[heap[a].AST] /\ Len(heap[a].slots) = Cardinality(boundVars[heap[a].AST]))
    /\ [][ctl.m = "evalExpr" /\ ctl.e.k = "ClosureDecl" /\ ctl'.m = "value" =>
              \A x \in boundVars'[ctl.e.d] :
                  /\ SlotOf(ctl.e.d, x) \in 1..Len(heap'[ctl'.v].slots)
                  /\ heap'[ctl'.v].slots[SlotOf(ctl.e.d, x)] = CapturedNow(ctl.e.d)[x]]_vars
    /\ [][ctl.m = "call" /\ ctl.fn.t = "closureTrampoline" /\ ctl'.m = "done" =>
              LET d == heap[ctl.self].AST
              IN  \A x \in boundVars[d] :
                      /\ x \in DOMAIN Last(symbols')
                      /\ Last(symbols')[x] = SlotLoc(ctl.self, SlotOf(d, x))]_vars

\* two() has returned 34 twice: ca from the slot that received 3 and cb from
\* the slot that received 4, after both globals were set to 0.
C32_Witness ==
    /\ Finished
    /\ {"r", "r2"} \subseteq DOMAIN globalSymbols
    /\ GlobalValue("r") = createSmallInteger(34)
    /\ GlobalValue("r2") = createSmallInteger(34)
    /\ GlobalValue("ca") = createSmallInteger(0)
    /\ Cardinality(boundVars[22]) = 2

-----------------------------------------------------------------------------
(* Small-integer arithmetic                                                *)

\* x reduced to two's complement of WordBits - 3 bits.
WrapSmall(x) == ((x + 2^(WordBits - 4)) % 2^(WordBits - 3)) - 2^(WordBits - 4)

\* The integer a small-integer word stands for.
IntegerOf(w) == (w - 1) \div 8

\* The arithmetic program has run.
ArithmeticProgramDone == Finished /\ {"x", "hi", "lo", "sq", "ng"} \subseteq DOMAIN globalSymbols

-----------------------------------------------------------------------------
(* Instance variables, self and cmd in interpreted methods                 *)

\* The program with two instances of K has run.
IVarProgramDone == Finished /\ {"v", "o1", "o2", "s1", "r1", "r2", "sf", "cm"} \subseteq DOMAIN globalSymbols

\* The top frame is that of an interpreted method.
InMethod == symbols # << >> /\ "self" \in DOMAIN Last(symbols) /\ Last(symbols)["self"][1] = "self"

\* C34: the step that enters the interpreted body of a method binds the i-th
\* instance-variable name of the receiver's class to slot i of the receiver,
\* self to a cell holding the receiver and cmd to a cell holding the selector
\* as a small integer; in a method, a store to a name bound to a slot changes
\* that slot and nothing else in the heap or the globals.  With o1.m(7)
\* (v = x), o1.get() is 7, o2.get() is still null and the global v still 5.
C34_InstanceVariables ==
    /\ [][ctl.m = "call" /\ ctl.fn.t = "methodTrampoline" /\ ctl'.m = "done" =>
            LET names == classes[ClassOf(heap, ctl.self)].indexedIVarNames
                top   == Last(symbols')
            IN  /\ \A i \in 1..Len(names) : top[names[i]] = SlotLoc(ctl.self, i)
                /\ Len(names) = Len(heap[ctl.self].slots)
                /\ Load(Mem', top["self"]) = ctl.self
                /\ Load(Mem', top["cmd"]) = 8 * ctl.sel + 1]_vars
    /\ [][InMethod /\ (At("value", "Assignment") \/ At("value", "Decl")) /\ StoreTarget[1] = "slot" =>
            /\ StoreTarget[2] = Load(Mem, Last(symbols)["self"])
            /\ heap' = [heap EXCEPT ![StoreTarget[2]].slots[StoreTarget[3]] = ctl.v]
            /\ globals' = globals]_vars
    /\ [](IVarProgramDone =>
            /\ GlobalValue("r1") = createSmallInteger(7)
            /\ GlobalValue("r2") = 0
            /\ GlobalValue("v") = createSmallInteger(5)
            /\ heap[GlobalValue("o1")].slots = << 0, createSmallInteger(7) >>
            /\ heap[GlobalValue("o2")].slots = << 0, 0 >>
            /\ GlobalValue("sf") = GlobalValue("o2")
            /\ selectors[IntegerOf(GlobalValue("cm"))] = "sel")

\* o1 holds 7 in its second slot and o2 nothing, after methods ran on both.
C34_Witness ==
    /\ IVarProgramDone
    /\ GlobalValue("o1") # GlobalValue("o2")
    /\ heap[GlobalValue("o1")].slots[2] = createSmallInteger(7)
    /\ GlobalValue("sf") = GlobalValue("o2")

-----------------------------------------------------------------------------
(* Instance variables of a superclass                                      *)

RECURSIVE IVarCountOfChain(_)
\* The instance variables a class and its superclasses declare together.
IVarCountOfChain(cls) ==
    IF cls = 0 THEN 0 ELSE classes[cls].indexedIVarCount + IVarCountOfChain(classes[cls].superclass)

\* C35: the step that enters the interpreted body of a method found in a
\* superclass of the receiver's class binds every instance-variable name of
\* that superclass to a slot of the receiver, and every object has a slot for
\* each instance variable of its class and of its superclasses.
C35_InheritedIVars ==
    /\ [][ctl.m = "call" /\ ctl.fn.t = "methodTrampoline" /\ ctl'.m = "done" =>
            LET mth   == methodForSelector(classes, ClassOf(heap, ctl.self), ctl.sel)
                names == classes[mth[1]].indexedIVarNames
                top   == Last(symbols')
            IN  \A i \in 1..Len(names) :
                    /\ names[i] \in DOMAIN top
                    /\ top[names[i]][1] = "slot"
                    /\ top[names[i]][2] = ctl.self
                    /\ top[names[i]][3] \in 1..Len(heap[ctl.self].slots)]_vars
    /\ [](\A a \in DOMAIN heap :
            heap[a].isa \notin {ClosureClass, StringClass} =>
                Len(heap[a].slots) >= IVarCountOfChain(heap[a].isa))

-----------------------------------------------------------------------------
(* Creation of a closure whose bound variables do not all resolve          *)

\* The objects the step has allocated.
NewObjects == DOMAIN heap' \ DOMAIN heap

\* C36: the step that evaluates a closure declaration either finds every
\* bound name in the top frame or the globals, and then yields a new object
\* whose slots hold the values of those names, or it finds some bound name
\* nowhere, and then yields no value and leaves no global and no local
\* variable holding an object made by the step.
C36_CreationChecked ==
    [][ctl.m = "evalExpr" /\ ctl.e.k = "ClosureDecl" =>
          LET d == ctl.e.d
          IN  IF \A x \in boundVars'[d] : lookupSymbol(symbols', globalSymbols', x) # << "null" >>
              THEN /\ ctl'.m = "value"
                   /\ ctl'.v \in NewObjects
                   /\ \A x \in boundVars'[d] :
                          heap'[ctl'.v].slots[SlotOf(d, x)] = Load(Mem', lookupSymbol(symbols', globalSymbols', x))
              ELSE /\ ctl'.m # "value"
                   /\ \A n \in DOMAIN globalSymbols' : Load(Mem', globalSymbols'[n]) \notin NewObjects
                   /\ symbols' # << >> =>
                          \A n \in DOMAIN Last(symbols') : Load(Mem', Last(symbols')[n]) \notin NewObjects]_vars

-----------------------------------------------------------------------------
(* Class declarations                                                      *)

\* The class a name is registered under (0 when there is none).
Registered(ct, n) == IF n \in DOMAIN ct THEN ct[n] ELSE 0

\* The program that declares E twice has run.
RedeclarationProgramDone == Finished /\ {"fo", "fr", "eo", "er"} \subseteq DOMAIN globalSymbols

\* C37: the step that interprets a class declaration with one identifier
\* registers a new class under that identifier, with no superclass; with two
\* identifiers it registers the new class under the first, its superclass
\* being the class that was registered under the second before the step (none
\* when there was none); entry i of its method list holds the selector of the
\* name of the i-th method, the number of its parameters and the declaration
\* itself.  A subclass keeps the superclass it was given when its
\* superclass's name is registered again.
C37_ClassRegistration ==
    /\ [][ctl.m = "exec" /\ ctl.s.k = "ClassDecl" /\ ctl'.m = "done" =>
            LET s    == ctl.s
                one  == s.name = ""
                n    == IF one THEN s.superclassName ELSE s.name
                new  == Registered(classTable', n)
            IN  /\ new \in (1..Len(classes')) \ (1..Len(classes))
                /\ classes'[new].className = n
                /\ classes'[new].superclass = (IF one THEN 0 ELSE Registered(classTable, s.superclassName))
                /\ Len(classes'[new].methodList) = Len(s.methods)
                /\ \A i \in 1..Len(s.methods) :
                      LET e == classes'[new].methodList[i]
                      IN  /\ selectors'[e.selector] = Decls[s.methods[i]].name
                          /\ e.args = Len(Decls[s.methods[i]].parameters)
                          /\ e.AST = s.methods[i]
                /\ \A c \in 1..Len(classes) : classes'[c].superclass = classes[c].superclass]_vars
    /\ [](RedeclarationProgramDone =>
            /\ GlobalValue("fr") = createSmallInteger(5)
            /\ GlobalValue("er") = createSmallInteger(6)
            /\ classes[classTable["G"]].superclass = 0
            /\ classes[classTable["F"]].superclass # classTable["E"])

\* F still answers q with the first E's method; the second E answers 6.
C37_Witness ==
    /\ RedeclarationProgramDone
    /\ classes[classTable["F"]].superclass # 0
    /\ classes[classTable["E"]].indexedIVarNames = << "v" >>
    /\ GlobalValue("fr") = createSmallInteger(5)

=============================================================================
